---- MODULE Spec2Model ----
(***************************************************************************)
(* Model of the llm-d inference scheduler plugins.                         *)
(*                                                                         *)
(*   Spec    the active-request tracker (pkg/plugins/scorer/               *)
(*           active_request.go): PreRequest, PostResponse, TTL expiry,     *)
(*           the periodic DeleteExpired and the eviction callbacks, at the *)
(*           granularity of the synchronisation points of the code (one    *)
(*           step per cache operation and per mutex-protected counter      *)
(*           update).                                                      *)
(*   PDSpec  the prefill/decode profile handler (pkg/plugins/profile/      *)
(*           pd_profile_handler.go) driven by the Schedule loop, with the  *)
(*           role filters of pkg/plugins/filter/pd_role_filter.go.         *)
(*   LiveSpec  Spec with weak fairness on the steps the goroutines and the *)
(*           periodic cache cleaner are bound to take.                     *)
(*   PXSpec  the prefix index (pkg/plugins/scorer/prefix_store.go):        *)
(*           NewPrefixStore, AddEntry and FindMatchingPods run by two      *)
(*           goroutines, one step per lock section and per LRU operation;  *)
(*           a block hash is represented by the chain of blocks it was     *)
(*           computed from.                                                *)
(*   SCSpec  the scorers as functions of one call (session affinity with   *)
(*           its base64 token, load-aware, the prefix scorers and their    *)
(*           normalisation) and a profile run that sums their weighted     *)
(*           scores and picks a pod, and the by-label filter of            *)
(*           pkg/plugins/filter/random.go; a call is one step and its      *)
(*           result is dropped by the next.                                *)
(*   ScoringSpec  the scorer calls of SCSpec and the steps of Spec, so     *)
(*           that the active-request scorer is read while requests are     *)
(*           being added and removed.                                      *)
(*   HookSpec  the pre-request hook of the prefill header (pkg/plugins/    *)
(*           pre-request/pd_prerequest.go): a request arrives with its     *)
(*           headers, is scheduled (ProcessResults of the profile handler) *)
(*           and the hook runs on the result, over up to MaxCycles cycles  *)
(*           of one request.                                               *)
(*                                                                         *)
(* In PDSpec a scheduled request can be recorded by the prefix scorer and  *)
(* scheduled a second time with the hits of its chosen decode pod.         *)
(***************************************************************************)
EXTENDS Integers, Sequences, FiniteSets, TLC

VARIABLES
    \* ---- active-request tracker ----
    requestCache,   \* ActiveRequest.requestCache: key -> requestEntry
    expired,        \* keys of requestCache whose TTL has elapsed, not yet deleted
    podCounts,      \* ActiveRequest.podCounts: podName -> int (partial map)
    evictions,      \* eviction callbacks dispatched and not yet run: podName -> number
    thr,            \* per goroutine: position inside PreRequest / PostResponse
    life,           \* history: life cycle of each request id
    preCalls,       \* history: PreRequest calls that named each pod
    missed,         \* history: a decrement found no counter for its pod
    scoreOut,       \* the pods and the result of the latest Score call
    \* ---- prefill/decode scheduling ----
    pd,             \* one scheduling cycle (configuration, loop state, outcome)
    \* ---- prefix index ----
    config,         \* PrefixStoreConfig the store was built with
    store,          \* PrefixStore.store: modelName -> LRU of blocks
    locked,         \* PrefixStore.RWMutex is held (by a call that returned)
    pth,            \* per goroutine: position inside AddEntry / FindMatchingPods
    served,         \* history: <<modelName, pod, first chunk>> of the AddEntry calls
    lastFind,       \* the arguments and the result of the latest FindMatchingPods
    pair,           \* history: an AddEntry followed by a FindMatchingPods, alone
    nAdds,          \* number of AddEntry calls so far
    \* ---- scorers and profile run ----
    sc,             \* the latest call of a scorer, filter or profile run, and its result
    \* ---- pre-request hook ----
    request         \* the headers of the scheduled request and the hook's last call

arVars == <<requestCache, expired, podCounts, evictions, thr, life, preCalls, missed, scoreOut>>
pxVars == <<config, store, locked, pth, served, lastFind, pair, nAdds>>
vars == <<requestCache, expired, podCounts, evictions, thr, life, preCalls, missed, scoreOut, pd,
          config, store, locked, pth, served, lastFind, pair, nAdds, sc, request>>

----------------------------------------------------------------------------
(* Bounds *)

NumRequests == 2
NumThreads == 2
MaxProfileResults == 2
MaxCount == 3

----------------------------------------------------------------------------
(* Active-request tracker: data *)

\* Pod identities are NamespacedName.String() values, "namespace/name".
Pods == {"ns/a", "ns/a.b"}

ReqName == <<"r1", "b.r1", "r2", "r3", "r4">>
ReqIds == {ReqName[i] : i \in 1..NumRequests}

Threads == 1..NumThreads

NoTargets == "<no targets>"  \* a nil profile result or one with no target pods
NilPod == "<nil>"            \* PostResponse called with targetPod == nil

\* requestEntry.String(): fmt.Sprintf("%s.%s", r.PodName, r.RequestID)
entryString(podName, requestID) == podName \o "." \o requestID

EmptyMap == [x \in {} |-> 0]

\* podCounts[podName] as Go reads a map: the zero value for a missing key
Count(counts, podName) == IF podName \in DOMAIN counts THEN counts[podName] ELSE 0

\* number of cache entries of a pod whose TTL has not elapsed
Unexpired(podName) ==
    Cardinality({k \in (DOMAIN requestCache) \ expired : requestCache[k].PodName = podName})

\* incrementPodCount: s.podCounts[podName]++ under the mutex
incrementPodCount(counts, podName) ==
    [p \in (DOMAIN counts) \cup {podName} |->
        IF p = podName THEN Count(counts, podName) + 1 ELSE counts[p]]

\* decrementPodCount with the store of count - 1 lost
decrementPodCount_NoStore(counts, podName) ==
    IF podName \in DOMAIN counts /\ counts[podName] <= 1
    THEN [p \in (DOMAIN counts) \ {podName} |-> counts[p]]
    ELSE counts

\* decrementPodCount as a plain s.podCounts[podName]--
decrementPodCount_Unchecked(counts, podName) ==
    [p \in (DOMAIN counts) \cup {podName} |->
        IF p = podName THEN Count(counts, podName) - 1 ELSE counts[p]]

\* decrementPodCount: delete the key when the count is <= 1, otherwise count - 1;
\* nothing when the key is missing
decrementPodCount(counts, podName) ==
    IF podName \in DOMAIN counts
    THEN IF counts[podName] <= 1
         THEN [p \in (DOMAIN counts) \ {podName} |-> counts[p]]
         ELSE [counts EXCEPT ![podName] = counts[podName] - 1]
    ELSE counts

\* the loop header of PreRequest: profile results that are nil or have no target
\* pods are skipped; the first target pod of each other result gets an entry
TargetsOf(profileResults) == SelectSeq(profileResults, LAMBDA x : x # NoTargets)

\* requestCache.Set(key, entry, 0): insert or overwrite, with a fresh TTL
CacheSet(cache, key, entry) ==
    [k \in (DOMAIN cache) \cup {key} |-> IF k = key THEN entry ELSE cache[k]]

\* removal of keys from the cache
CacheRemove(cache, keys) == [k \in (DOMAIN cache) \ keys |-> cache[k]]

IdleThread == [pc |-> "idle", rid |-> "", pending |-> <<>>, pod |-> ""]
NoLife == [st |-> "none", pod |-> ""]

\* life records, per request id, how far a request has got through the plain
\* life cycle "one PreRequest with one target pod, then one PostResponse for
\* that pod that finds the entry" (pre, routed, post, done), or through the
\* prefill/decode cycle "one PreRequest with two different target pods, then
\* one PostResponse for one of them that finds the entry" (pd_pre, pd_routed,
\* pd_post, pd_done); anything else (other numbers of targets, a repeated
\* PreRequest, an unmatched PostResponse, an expiry) makes it OffCycle
OffCycle == [r \in ReqIds |-> [st |-> "other", pod |-> ""]]

\* preCalls once a PostResponse has been called or the TTL of an entry has elapsed
Dirty == [p \in Pods |-> -1]

\* the pods named by the profile results of one PreRequest call
Named(targets) == {targets[i] : i \in 1..Len(targets)}

\* scores are quotients of two ints, <<numerator, denominator>>
One == <<1, 1>>
RatEq(a, b) == a[1] * b[2] = b[1] * a[2]
RatLess(a, b) == a[1] * b[2] < b[1] * a[2]

\* the loop of Score over podCounts: maxCount starts at 0 and takes every
\* count >= maxCount
maxCount(counts) ==
    LET vals == {counts[p] : p \in DOMAIN counts} \cup {0}
    IN CHOOSE m \in vals : \A v \in vals : v <= m

\* Score with maxCount taken over the candidate pods only
Score_MaxOverCandidates(counts, pods) ==
    LET m == maxCount([p \in (DOMAIN counts) \cap pods |-> counts[p]])
    IN [pod \in pods |->
           IF pod \in DOMAIN counts
           THEN IF counts[pod] = 0 THEN One ELSE <<m - counts[pod], m>>
           ELSE One]

\* Score returning count/maxCount, the load instead of its complement
Score_CountOverMax(counts, pods) ==
    LET m == maxCount(counts)
    IN [pod \in pods |->
           IF pod \in DOMAIN counts
           THEN IF counts[pod] = 0 THEN One ELSE <<counts[pod], m>>
           ELSE One]

\* ActiveRequest.Score on the snapshot of podCounts taken under the read lock:
\* float64(maxCount-count)/float64(maxCount) for a tracked pod with a non-zero
\* count, 1.0 for a tracked pod with count 0 and for an untracked pod
Score(counts, pods) ==
    LET m == maxCount(counts)
    IN [pod \in pods |->
           IF pod \in DOMAIN counts
           THEN IF counts[pod] = 0 THEN One ELSE <<m - counts[pod], m>>
           ELSE One]

\* a picker returning the candidates with the lowest score
MaxScorePicker_MinScore(scores) ==
    {pod \in DOMAIN scores : \A other \in DOMAIN scores : ~RatLess(scores[other], scores[pod])}

\* picker.MaxScorePicker: the candidates with the highest score (one of them is
\* picked at random)
MaxScorePicker(scores) ==
    {pod \in DOMAIN scores : \A other \in DOMAIN scores : ~RatLess(scores[pod], scores[other])}

NoScore == [called |-> FALSE, pods |-> {}, scores |-> EmptyMap]

\* the candidate lists Score is called with: every pod, or one pod only
CandidateSets == {Pods, {"ns/a.b"}}

\* sequences of 1..MaxProfileResults profile results (Go iterates the map of
\* profile results in an arbitrary order, so every order is an input)
ProfileResultSeqs ==
    UNION {[1..n -> Pods \cup {NoTargets}] : n \in 1..MaxProfileResults}

----------------------------------------------------------------------------
(* Active-request tracker: operations *)

\* goroutines are anonymous: a new call is taken by the first idle one
FirstIdle(t) == thr[t].pc = "idle" /\ \A u \in Threads : u < t => thr[u].pc # "idle"

RECURSIVE SumCounts(_, _)
SumCounts(counts, ps) ==
    IF ps = {} THEN 0
    ELSE LET p == CHOOSE x \in ps : TRUE IN counts[p] + SumCounts(counts, ps \ {p})

RECURSIVE SumPending(_)
SumPending(ts) ==
    IF ts = {} THEN 0
    ELSE LET t == CHOOSE x \in ts : TRUE IN Len(thr[t].pending) + SumPending(ts \ {t})

\* increments made and not undone, plus those the running PreRequests will make
Outstanding == SumCounts(podCounts, DOMAIN podCounts) + SumPending(Threads)

ARInit ==
    /\ requestCache = EmptyMap
    /\ expired = {}
    /\ podCounts = EmptyMap
    /\ evictions = [p \in Pods |-> 0]
    /\ thr = [t \in Threads |-> IdleThread]
    /\ life = [r \in ReqIds |-> NoLife]
    /\ preCalls = [p \in Pods |-> 0]
    /\ missed = FALSE
    /\ scoreOut = NoScore

\* PreRequest is entered: the range over schedulingResult.ProfileResults starts
PreRequestCall(t, rid, profileResults) ==
    /\ FirstIdle(t)
    /\ Outstanding + Len(TargetsOf(profileResults)) <= MaxCount
    /\ LET targets == TargetsOf(profileResults) IN
       /\ thr' = [thr EXCEPT ![t] =
                    IF targets = <<>> THEN IdleThread
                    ELSE [pc |-> "pre_set", rid |-> rid, pending |-> targets, pod |-> Head(targets)]]
       /\ life' = IF life[rid].st = "none" /\ Len(profileResults) = 1 /\ targets # <<>>
                  THEN [life EXCEPT ![rid] = [st |-> "pre", pod |-> Head(targets)]]
                  ELSE IF life[rid].st = "none" /\ Len(targets) = 2 /\ targets[1] # targets[2]
                  THEN [life EXCEPT ![rid] = [st |-> "pd_pre", pod |-> ""]]
                  ELSE OffCycle
       /\ preCalls' = IF preCalls = Dirty THEN Dirty
                      ELSE [p \in Pods |-> preCalls[p] + IF p \in Named(targets) THEN 1 ELSE 0]
    /\ scoreOut' = NoScore
    /\ UNCHANGED <<requestCache, expired, podCounts, evictions, missed, pd, pxVars, sc, request>>

\* s.requestCache.Set(entry.String(), entry, 0)
PreRequestSet(t) ==
    /\ thr[t].pc = "pre_set"
    /\ LET entry == [PodName |-> thr[t].pod, RequestID |-> thr[t].rid]
           key == entryString(entry.PodName, entry.RequestID) IN
       /\ requestCache' = CacheSet(requestCache, key, entry)
       /\ expired' = expired \ {key}
    /\ thr' = [thr EXCEPT ![t].pc = "pre_inc"]
    /\ scoreOut' = NoScore
    /\ UNCHANGED <<podCounts, evictions, life, preCalls, missed, pd, pxVars, sc, request>>

\* s.incrementPodCount(entry.PodName), then the next profile result or return
PreRequestIncrement(t) ==
    /\ thr[t].pc = "pre_inc"
    /\ podCounts' = incrementPodCount(podCounts, thr[t].pod)
    /\ LET rest == Tail(thr[t].pending) IN
       /\ thr' = [thr EXCEPT ![t] =
                    IF rest = <<>> THEN IdleThread
                    ELSE [pc |-> "pre_set", rid |-> thr[t].rid, pending |-> rest, pod |-> Head(rest)]]
       /\ life' = [life EXCEPT ![thr[t].rid] =
                    IF rest = <<>> /\ @.st = "pre" THEN [@ EXCEPT !.st = "routed"]
                    ELSE IF rest = <<>> /\ @.st = "pd_pre" THEN [@ EXCEPT !.st = "pd_routed"]
                    ELSE @]
    /\ scoreOut' = NoScore
    /\ UNCHANGED <<requestCache, expired, evictions, preCalls, missed, pd, pxVars, sc, request>>

\* PostResponse up to and including requestCache.GetAndDelete: a nil target pod
\* returns at once; an entry is found only if it is present and not expired
PostResponseCall(t, rid, targetPod) ==
    /\ FirstIdle(t)
    /\ IF targetPod = NilPod
       THEN /\ life' = OffCycle
            /\ UNCHANGED <<requestCache, thr>>
       ELSE LET key == entryString(targetPod, rid)
                found == key \in (DOMAIN requestCache) \ expired IN
            /\ requestCache' = IF found THEN CacheRemove(requestCache, {key}) ELSE requestCache
            /\ thr' = [thr EXCEPT ![t] =
                         IF found THEN [pc |-> "post_dec", rid |-> rid, pending |-> <<>>, pod |-> targetPod]
                         ELSE IdleThread]
            /\ life' = IF found /\ life[rid] = [st |-> "routed", pod |-> targetPod]
                       THEN [life EXCEPT ![rid].st = "post"]
                       ELSE IF found /\ life[rid].st = "pd_routed"
                       THEN [life EXCEPT ![rid] = [st |-> "pd_post", pod |-> targetPod]]
                       ELSE OffCycle
    /\ preCalls' = Dirty
    /\ scoreOut' = NoScore
    /\ UNCHANGED <<expired, podCounts, evictions, missed, pd, pxVars, sc, request>>

\* s.decrementPodCount(entry.PodName) after a successful GetAndDelete
PostResponseDecrement(t) ==
    /\ thr[t].pc = "post_dec"
    /\ podCounts' = decrementPodCount(podCounts, thr[t].pod)
    /\ thr' = [thr EXCEPT ![t] = IdleThread]
    /\ life' = [life EXCEPT ![thr[t].rid] =
                 IF @.st = "post" THEN [@ EXCEPT !.st = "done"]
                 ELSE IF @.st = "pd_post" THEN [@ EXCEPT !.st = "pd_done"]
                 ELSE @]
    /\ missed' = (missed \/ thr[t].pod \notin DOMAIN podCounts)
    /\ scoreOut' = NoScore
    /\ UNCHANGED <<requestCache, expired, evictions, preCalls, pd, pxVars, sc, request>>

\* the TTL of an entry elapses (requestTimeout after its last Set)
Expire(key) ==
    /\ key \in (DOMAIN requestCache) \ expired
    /\ expired' = expired \cup {key}
    /\ life' = OffCycle
    /\ preCalls' = Dirty
    /\ scoreOut' = NoScore
    /\ UNCHANGED <<requestCache, podCounts, evictions, thr, missed, pd, pxVars, sc, request>>

\* cleanCachePeriodically: cache.DeleteExpired() on a tick; every expired item is
\* removed and its eviction callback is dispatched with EvictionReasonExpired
DeleteExpired ==
    /\ expired # {}
    /\ requestCache' = CacheRemove(requestCache, expired)
    /\ evictions' = [p \in Pods |->
            evictions[p] + Cardinality({k \in expired : requestCache[k].PodName = p})]
    /\ expired' = {}
    /\ scoreOut' = NoScore
    /\ UNCHANGED <<podCounts, thr, life, preCalls, missed, pd, pxVars, sc, request>>

\* the OnEviction callback of NewActiveRequest runs for an expired item
EvictionCallback(podName) ==
    /\ evictions[podName] > 0
    /\ evictions' = [evictions EXCEPT ![podName] = @ - 1]
    /\ podCounts' = decrementPodCount(podCounts, podName)
    /\ missed' = (missed \/ podName \notin DOMAIN podCounts)
    /\ scoreOut' = NoScore
    /\ UNCHANGED <<requestCache, expired, thr, life, preCalls, pd, pxVars, sc, request>>

\* Score is called with the candidate pods of a scheduling cycle; scoreOut holds
\* the result until the tracker takes its next step
ScoreCall(pods) ==
    /\ scoreOut' = [called |-> TRUE, pods |-> pods, scores |-> Score(podCounts, pods)]
    /\ UNCHANGED <<requestCache, expired, podCounts, evictions, thr, life, preCalls, missed, pd, pxVars, sc, request>>

ARNext ==
    \/ \E t \in Threads, rid \in ReqIds, prs \in ProfileResultSeqs : PreRequestCall(t, rid, prs)
    \/ \E t \in Threads : PreRequestSet(t)
    \/ \E t \in Threads : PreRequestIncrement(t)
    \/ \E t \in Threads, rid \in ReqIds, pod \in Pods \cup {NilPod} : PostResponseCall(t, rid, pod)
    \/ \E t \in Threads : PostResponseDecrement(t)
    \/ \E key \in DOMAIN requestCache : Expire(key)
    \/ DeleteExpired
    \/ \E p \in Pods : EvictionCallback(p)
    \/ \E pods \in CandidateSets : ScoreCall(pods)

----------------------------------------------------------------------------
(* Prefill/decode scheduling: data *)

MaxPromptLen == 6
MaxThreshold == 3
MaxBlockSize == 2
MaxHits == 3
MaxIters == 4

\* defaultDecodeProfile, defaultPrefillProfile; "extra" stands for any further
\* profile of the configuration
decodeProfile == "decode"
prefillProfile == "prefill"
extraProfile == "extra"
ProfileNames == {decodeProfile, prefillProfile, extraProfile}
ProfileSets == {{decodeProfile}, {decodeProfile, prefillProfile},
                {decodeProfile, prefillProfile, extraProfile}}

RoleLabel == "llm-d.ai/role"
RolePrefill == "prefill"
RoleDecode == "decode"
RoleBoth == "both"

\* candidate pods and their labels: one pod per role value, one without the
\* role label and one whose role label has the empty value
PDPods == {"podP", "podD", "podB", "podN", "podE"}
Labels ==
    [p \in PDPods |->
        CASE p = "podP" -> [l \in {RoleLabel} |-> RolePrefill]
          [] p = "podD" -> [l \in {RoleLabel} |-> RoleDecode]
          [] p = "podB" -> [l \in {RoleLabel} |-> RoleBoth]
          [] p = "podE" -> [l \in {RoleLabel} |-> ""]
          [] OTHER -> [l \in {} |-> ""]]

\* pod.GetPod().Labels[RoleLabel] as Go reads a map: "" for a missing key
LabelValue(pod, label) == IF label \in DOMAIN Labels[pod] THEN Labels[pod][label] ELSE ""

\* PrefillFilter.Filter taking "both" for a prefill role as well
PrefillFilter_WithBoth(pods) ==
    {pod \in pods : LabelValue(pod, RoleLabel) \in {RolePrefill, RoleBoth}}

\* PrefillFilter.Filter: keeps the pods whose role label is "prefill"
PrefillFilter(pods) == {pod \in pods : LabelValue(pod, RoleLabel) = RolePrefill}

\* DecodeFilter.Filter with the negation of "defined" lost
DecodeFilter_LabelDefined(pods) ==
    {pod \in pods : \/ RoleLabel \in DOMAIN Labels[pod]
                    \/ LabelValue(pod, RoleLabel) = RoleDecode
                    \/ LabelValue(pod, RoleLabel) = RoleBoth}

\* DecodeFilter.Filter deciding by the value read from the label map alone
DecodeFilter_ByValue(pods) ==
    {pod \in pods : LabelValue(pod, RoleLabel) \in {"", RoleDecode, RoleBoth}}

\* ByLabel.Filter: keeps the pods whose label has one of the valid values, and
\* the pods without the label when allowsNoLabel is set
ByLabel(labelName, allowsNoLabel, validValues, pods) ==
    {pod \in pods : \/ (labelName \notin DOMAIN Labels[pod] /\ allowsNoLabel)
                    \/ LabelValue(pod, labelName) \in validValues}

\* DecodeFilter.Filter: keeps the pods without the role label and those whose
\* role is "decode" or "both"
DecodeFilter(pods) ==
    {pod \in pods : \/ RoleLabel \notin DOMAIN Labels[pod]
                    \/ Labels[pod][RoleLabel] = RoleDecode
                    \/ Labels[pod][RoleLabel] = RoleBoth}

NilResult == "<nil>"   \* the entry of a profile whose run failed
\* the prefix scorer's entry of the cycle state; readable is FALSE when
\* ReadCycleStateKey returns an error (no entry under the configured name)
NoPrefixState == [readable |-> FALSE, PrefixCacheServers |-> [x \in {} |-> 0]]

\* profileResults: profile name -> NilResult or the first target pod of the run
ResultMaps(names, pods) ==
    UNION {[d -> pods \cup {NilResult}] : d \in SUBSET names}

\* the pairs <<len(prompt), hitPrefix*hashBlockSize>> for which the float64
\* value (1.0 - float64(hit)/float64(len)) * float64(len) is below the integer
\* len - hit (IEEE-754 double rounding), for len(prompt) <= 16
Float64RoundsBelow == {
    <<5, 4>>, <<6, 5>>, <<10, 8>>, <<10, 9>>, <<11, 9>>, <<12, 5>>, <<12, 10>>, <<13, 10>>,
    <<13, 12>>, <<14, 9>>, <<14, 13>>, <<15, 12>>, <<15, 13>>, <<15, 14>>}

\* the comparison made without the prefix hits of the decode pod
NonCachedBelowThreshold_NoHits(cycleState, decodePod, promptLen, pdThreshold, hashBlockSize) ==
    IF promptLen = 0 /\ cycleState.readable THEN FALSE ELSE promptLen < pdThreshold

\* the comparison with the threshold reversed
NonCachedBelowThreshold_Above(cycleState, decodePod, promptLen, pdThreshold, hashBlockSize) ==
    IF ~cycleState.readable
    THEN promptLen > pdThreshold
    ELSE LET servers == cycleState.PrefixCacheServers
             hits == IF decodePod \in DOMAIN servers THEN servers[decodePod] ELSE 0
             hitPrefix == IF hits - 1 > 0 THEN hits - 1 ELSE 0
             hit == hitPrefix * hashBlockSize
         IN IF promptLen = 0 THEN FALSE ELSE promptLen - hit > pdThreshold

\* (1.0-hitPercentagePrefix)*float64(len(request.Prompt)) < float64(h.pdThreshold)
\* as float64 evaluates it, hitPercentagePrefix being 0.0 when the prefix state
\* is unreadable and float64(hitPrefix*hashBlockSize)/float64(len(prompt))
\* otherwise: with an empty prompt the quotient is NaN or +Inf, the product is
\* NaN and the comparison is false
NonCachedBelowThreshold(cycleState, decodePod, promptLen, pdThreshold, hashBlockSize) ==
    IF ~cycleState.readable
    THEN promptLen < pdThreshold
    ELSE LET servers == cycleState.PrefixCacheServers
             hits == IF decodePod \in DOMAIN servers THEN servers[decodePod] ELSE 0
             hitPrefix == IF hits - 1 > 0 THEN hits - 1 ELSE 0
             hit == hitPrefix * hashBlockSize
         IN IF promptLen = 0
            THEN FALSE
            ELSE \/ promptLen - hit < pdThreshold
                 \/ promptLen - hit = pdThreshold /\ <<promptLen, hit>> \in Float64RoundsBelow

\* Pick testing "no results yet" instead of "decode not executed"
Pick_EmptyResultsOnly(cycleState, promptLen, pdThreshold, hashBlockSize, profiles, profileResults) ==
    IF DOMAIN profileResults = {}
    THEN {decodeProfile}
    ELSE IF \/ Cardinality(profiles) = Cardinality(DOMAIN profileResults)
            \/ decodeProfile \notin DOMAIN profileResults
            \/ profileResults[decodeProfile] = NilResult
    THEN {}
    ELSE IF /\ pdThreshold > 0
            /\ NonCachedBelowThreshold(cycleState, profileResults[decodeProfile],
                                       promptLen, pdThreshold, hashBlockSize)
    THEN {}
    ELSE {prefillProfile}

\* PdProfileHandler.Pick; the returned map is modelled by its set of keys
Pick(cycleState, promptLen, pdThreshold, hashBlockSize, profiles, profileResults) ==
    IF decodeProfile \notin DOMAIN profileResults
    THEN {decodeProfile}
    ELSE IF \/ Cardinality(profiles) = Cardinality(DOMAIN profileResults)
            \/ profileResults[decodeProfile] = NilResult
    THEN {}
    ELSE IF /\ pdThreshold > 0
            /\ NonCachedBelowThreshold(cycleState, profileResults[decodeProfile],
                                       promptLen, pdThreshold, hashBlockSize)
    THEN {}
    ELSE {prefillProfile}

NoSchedulingResult == [PrimaryProfileName |-> "", ProfileResults |-> [x \in {} |-> NilResult]]

DecodeOnly(profileResults) ==
    [err |-> FALSE,
     result |-> [PrimaryProfileName |-> decodeProfile,
                 ProfileResults |-> [x \in {decodeProfile} |-> profileResults[decodeProfile]]]]

\* ProcessResults failing the request when the prefill profile failed
ProcessResults_FailOnPrefill(profileResults) ==
    IF \/ decodeProfile \notin DOMAIN profileResults \/ profileResults[decodeProfile] = NilResult
       \/ prefillProfile \in DOMAIN profileResults /\ profileResults[prefillProfile] = NilResult
    THEN [err |-> TRUE, result |-> NoSchedulingResult]
    ELSE IF prefillProfile \in DOMAIN profileResults
    THEN [err |-> FALSE,
          result |-> [PrimaryProfileName |-> decodeProfile, ProfileResults |-> profileResults]]
    ELSE DecodeOnly(profileResults)

\* ProcessResults testing the prefill result before the decode result
ProcessResults_PrefillFirst(profileResults) ==
    IF prefillProfile \in DOMAIN profileResults /\ profileResults[prefillProfile] # NilResult
    THEN [err |-> FALSE,
          result |-> [PrimaryProfileName |-> decodeProfile, ProfileResults |-> profileResults]]
    ELSE IF decodeProfile \notin DOMAIN profileResults \/ profileResults[decodeProfile] = NilResult
    THEN [err |-> TRUE, result |-> NoSchedulingResult]
    ELSE DecodeOnly(profileResults)

\* ProcessResults without the nil test on the prefill result
ProcessResults_KeepNilPrefill(profileResults) ==
    IF decodeProfile \notin DOMAIN profileResults \/ profileResults[decodeProfile] = NilResult
    THEN [err |-> TRUE, result |-> NoSchedulingResult]
    ELSE IF prefillProfile \in DOMAIN profileResults
    THEN [err |-> FALSE,
          result |-> [PrimaryProfileName |-> decodeProfile, ProfileResults |-> profileResults]]
    ELSE DecodeOnly(profileResults)

\* ProcessResults with the nil test on the prefill result inverted
ProcessResults_NilTestInverted(profileResults) ==
    IF decodeProfile \notin DOMAIN profileResults \/ profileResults[decodeProfile] = NilResult
    THEN [err |-> TRUE, result |-> NoSchedulingResult]
    ELSE IF prefillProfile \in DOMAIN profileResults /\ profileResults[prefillProfile] = NilResult
    THEN [err |-> FALSE,
          result |-> [PrimaryProfileName |-> decodeProfile, ProfileResults |-> profileResults]]
    ELSE DecodeOnly(profileResults)

\* PdProfileHandler.ProcessResults: (SchedulingResult, error)
ProcessResults(profileResults) ==
    IF decodeProfile \notin DOMAIN profileResults \/ profileResults[decodeProfile] = NilResult
    THEN [err |-> TRUE, result |-> NoSchedulingResult]
    ELSE IF prefillProfile \in DOMAIN profileResults /\ profileResults[prefillProfile] # NilResult
    THEN [err |-> FALSE,
          result |-> [PrimaryProfileName |-> decodeProfile, ProfileResults |-> profileResults]]
    ELSE DecodeOnly(profileResults)

\* the role filter each profile is built with (CreatePDSchedulerConfig)
ProfileFilter(name, pods) ==
    CASE name = decodeProfile -> DecodeFilter(pods)
      [] name = prefillProfile -> PrefillFilter(pods)
      [] OTHER -> pods

\* SchedulerProfile.Run: the outcomes of one profile run, NilResult when the
\* filter leaves no candidate, otherwise any pod the filter kept (scorers and
\* picker choose among them)
RunOutcomes(name, candidates) ==
    IF ProfileFilter(name, candidates) = {} THEN {NilResult} ELSE ProfileFilter(name, candidates)

\* prefix states the prefix scorer can publish for the chosen decode pod: the
\* hit blocks lie inside the prompt
PrefixStates(decodePod, promptLen, hashBlockSize) ==
    {NoPrefixState} \cup
    {[readable |-> TRUE, PrefixCacheServers |-> [x \in {decodePod} |-> h]] :
        h \in {k \in 0..MaxHits : (IF k > 1 THEN k - 1 ELSE 0) * hashBlockSize <= promptLen}}

\* the state the prefix scorer publishes for a pod for which it has recorded
\* the whole prompt: one hit for the model name and one per full block, and
\* nothing for a prompt shorter than a block
WarmPrefixState(decodePod, promptLen, hashBlockSize) ==
    [readable |-> TRUE,
     PrefixCacheServers |-> [x \in {decodePod} |->
        IF promptLen < hashBlockSize THEN 0 ELSE 1 + (promptLen \div hashBlockSize)]]

PDIdle == [pc |-> "start", mode |-> "", profiles |-> {}, pdThreshold |-> 0, hashBlockSize |-> 1,
           promptLen |-> 0, candidates |-> {}, cycleState |-> NoPrefixState,
           profileResults |-> [x \in {} |-> NilResult], ran |-> <<>>, picks |-> 0,
           lastPick |-> {}, out |-> [err |-> FALSE, result |-> NoSchedulingResult],
           round |-> 1, warmPod |-> "", first |-> NoSchedulingResult]


----------------------------------------------------------------------------
(* Prefill/decode scheduling: operations *)

Thresholds == -1..MaxThreshold
BlockSizes == 1..MaxBlockSize
PromptLens == 0..MaxPromptLen

\* what Pick returns in the current state of the cycle
PickNow == Pick(pd.cycleState, pd.promptLen, pd.pdThreshold, pd.hashBlockSize,
                pd.profiles, pd.profileResults)

\* Scheduler.Schedule is entered: a fresh cycle state and no results so far
ScheduleStart(profiles, pdThreshold, hashBlockSize, promptLen, candidates) ==
    /\ pd.pc = "start"
    /\ pd' = [pd EXCEPT !.pc = "loop", !.mode = "schedule", !.profiles = profiles,
                        !.pdThreshold = pdThreshold, !.hashBlockSize = hashBlockSize,
                        !.promptLen = promptLen, !.candidates = candidates]
    /\ UNCHANGED <<arVars, pxVars, sc, request>>

\* one iteration of the Schedule loop: Pick returns a non-empty set, each
\* returned profile is run and its outcome (nil on failure) is recorded; the
\* prefix scorer of the decode profile publishes its state when it runs
ScheduleRun ==
    /\ pd.pc = "loop"
    /\ pd.picks < MaxIters
    /\ PickNow # {}
    /\ \E name \in PickNow :
       \E outcome \in RunOutcomes(name, pd.candidates) :
       \E state \in IF name = decodeProfile /\ outcome # NilResult
                    THEN IF pd.round = 2 /\ outcome = pd.warmPod
                         THEN {WarmPrefixState(outcome, pd.promptLen, pd.hashBlockSize)}
                         ELSE PrefixStates(outcome, pd.promptLen, pd.hashBlockSize)
                    ELSE {pd.cycleState} :
          pd' = [pd EXCEPT !.profileResults =
                               [x \in (DOMAIN pd.profileResults) \cup {name} |->
                                   IF x = name THEN outcome ELSE pd.profileResults[x]],
                           !.cycleState = state,
                           !.ran = Append(pd.ran, name),
                           !.picks = pd.picks + 1,
                           !.lastPick = PickNow]
    /\ UNCHANGED <<arVars, pxVars, sc, request>>

\* Pick returns the empty set: the loop ends and ProcessResults is called
ScheduleFinish ==
    /\ pd.pc = "loop"
    /\ PickNow = {}
    /\ pd' = [pd EXCEPT !.pc = "done", !.lastPick = {},
                        !.out = ProcessResults(pd.profileResults)]
    /\ UNCHANGED <<arVars, pxVars, sc, request>>

\* the prefix scorer's PreRequest after the first cycle of a request: the
\* prompt is recorded for the target pod of the primary profile
PrefixPreRequest ==
    /\ pd.pc = "done"
    /\ pd.mode = "schedule"
    /\ pd.round = 1
    /\ ~pd.out.err
    /\ pd' = [pd EXCEPT !.pc = "recorded",
                        !.warmPod = pd.out.result.ProfileResults[pd.out.result.PrimaryProfileName],
                        !.first = pd.out.result]
    /\ UNCHANGED <<arVars, pxVars, sc, request>>

\* Scheduler.Schedule is entered again with the same request and candidates
ScheduleAgain ==
    /\ pd.pc = "recorded"
    /\ pd' = [pd EXCEPT !.pc = "loop", !.round = 2, !.cycleState = NoPrefixState,
                        !.profileResults = [x \in {} |-> NilResult], !.ran = <<>>,
                        !.picks = 0, !.lastPick = {},
                        !.out = [err |-> FALSE, result |-> NoSchedulingResult]]
    /\ UNCHANGED <<arVars, pxVars, sc, request>>

\* the handler called directly (as a caller other than Schedule, or a test,
\* may) with any map of results of configured profiles
HandlerCall(profiles, pdThreshold, hashBlockSize, promptLen, profileResults, cycleState) ==
    /\ pd.pc = "start"
    /\ pd' = [pd EXCEPT !.pc = "called", !.mode = "call", !.profiles = profiles,
                        !.pdThreshold = pdThreshold, !.hashBlockSize = hashBlockSize,
                        !.promptLen = promptLen, !.profileResults = profileResults,
                        !.cycleState = cycleState,
                        !.lastPick = Pick(cycleState, promptLen, pdThreshold, hashBlockSize,
                                          profiles, profileResults),
                        !.out = ProcessResults(profileResults)]
    /\ UNCHANGED <<arVars, pxVars, sc, request>>

CallPods == {"podP", "podD"}

----------------------------------------------------------------------------
(* Pre-request hook of the prefill header *)

prefillPodHeader == "x-prefiller-host-port"
sessionTokenHeader == "x-session-token"

\* pod.GetPod().Address, as the characters of the string: the addresses of
\* the pods of TestPDSchedule, and IPv6 literals for the other pods
Address ==
    [p \in PDPods |->
        CASE p = "podP" -> <<"1", ".", "2", ".", "3", ".", "4">>
          [] p = "podD" -> <<"f", "d", "0", "0", ":", ":", "2">>
          [] p = "podN" -> <<"1", ".", "1", ".", "1", ".", "1">>
          [] OTHER -> <<":", ":", "1">>]

\* the target ports of the inference pool
TargetPorts == {0, 80, 8000}

\* the headers a request arrives with: none, a session token, a prefiller
\* header left by an earlier cycle, an empty prefiller header
StaleHostPort == <<"9", ".", "9", ".", "9", ".", "9", ":", "1">>
RequestHeaders ==
    {[h \in {} |-> <<>>],
     [h \in {sessionTokenHeader} |-> <<"t">>],
     [h \in {sessionTokenHeader, prefillPodHeader} |->
         IF h = prefillPodHeader THEN StaleHostPort ELSE <<"t">>],
     [h \in {prefillPodHeader} |-> <<>>]}

\* the request before it arrives: pc is the position of the request (none,
\* new, scheduled, preRequested), cycle the number of scheduling cycles it
\* went through, out the outcome of ProcessResults in the latest of them,
\* before the headers at the latest call of the hook
NewRequest == [pc |-> "none", Headers |-> [h \in {} |-> <<>>], before |-> [h \in {} |-> <<>>],
               out |-> [err |-> FALSE, result |-> NoSchedulingResult],
               targetPort |-> 0, cycle |-> 0, panicked |-> FALSE]

\* the number of scheduling cycles of one request
MaxCycles == 2

\* strconv.Itoa: the decimal digits of an int, with a sign for negative values
Digit(d) == <<"0", "1", "2", "3", "4", "5", "6", "7", "8", "9">>[d + 1]
RECURSIVE FormatUint(_)
FormatUint(n) == IF n < 10 THEN <<Digit(n)>> ELSE Append(FormatUint(n \div 10), Digit(n % 10))
Itoa(i) == IF i < 0 THEN <<"-">> \o FormatUint(-i) ELSE FormatUint(i)

\* net.JoinHostPort without the brackets of an IPv6 literal
JoinHostPort_NoBrackets(host, port) == host \o <<":">> \o port

\* net.JoinHostPort: "host:port", and "[host]:port" when the host contains a
\* colon (an IPv6 literal)
JoinHostPort(host, port) ==
    IF \E i \in 1..Len(host) : host[i] = ":"
    THEN <<"[">> \o host \o <<"]", ":">> \o port
    ELSE host \o <<":">> \o port

\* PreRequest without its first lines: a header found on the request is kept
ClearPrefillHeader_Kept(headers) == headers

\* the first lines of PreRequest: a prefiller header found on the request is
\* set to the empty string
ClearPrefillHeader(headers) ==
    [h \in DOMAIN headers |-> IF h = prefillPodHeader THEN <<>> ELSE headers[h]]

\* PrefillHeaderHandler.PreRequest on the headers of the request: the headers
\* after the call, panicked when the prefill entry of the result is nil and
\* its TargetPods are read
PrefillHeaderPreRequest(headers, schedulingResult, targetPort) ==
    IF prefillProfile \notin DOMAIN schedulingResult.ProfileResults
    THEN [Headers |-> ClearPrefillHeader(headers), panicked |-> FALSE]
    ELSE IF schedulingResult.ProfileResults[prefillProfile] = NilResult
    THEN [Headers |-> ClearPrefillHeader(headers), panicked |-> TRUE]
    ELSE [Headers |->
              [h \in DOMAIN headers \cup {prefillPodHeader} |->
                  IF h = prefillPodHeader
                  THEN JoinHostPort(Address[schedulingResult.ProfileResults[prefillProfile]],
                                    Itoa(targetPort))
                  ELSE headers[h]],
          panicked |-> FALSE]

\* a request arrives with its headers
RequestArrives(headers) ==
    /\ request.pc = "none"
    /\ request' = [request EXCEPT !.pc = "new", !.Headers = headers]
    /\ UNCHANGED <<arVars, pd, pxVars, sc>>

\* a scheduling cycle of the request ends: ProcessResults turns the results
\* of the profiles that ran into the SchedulingResult, or fails the request
RequestScheduled(profileResults) ==
    /\ request.pc \in {"new", "preRequested"}
    /\ request.cycle < MaxCycles
    /\ ~request.panicked
    /\ request' = [request EXCEPT !.pc = "scheduled", !.cycle = request.cycle + 1,
                                  !.out = ProcessResults(profileResults)]
    /\ UNCHANGED <<arVars, pd, pxVars, sc>>

\* the director calls the hook with the result of a cycle that succeeded
PreRequestHook(targetPort) ==
    /\ request.pc = "scheduled"
    /\ ~request.out.err
    /\ request' = [request EXCEPT
                      !.pc = "preRequested",
                      !.Headers = PrefillHeaderPreRequest(request.Headers, request.out.result,
                                                          targetPort).Headers,
                      !.before = request.Headers,
                      !.targetPort = targetPort,
                      !.panicked = PrefillHeaderPreRequest(request.Headers, request.out.result,
                                                           targetPort).panicked]
    /\ UNCHANGED <<arVars, pd, pxVars, sc>>

HookNext ==
    \/ \E headers \in RequestHeaders : RequestArrives(headers)
    \/ /\ request.pc \in {"new", "preRequested"}
       /\ \E profileResults \in ResultMaps(ProfileNames, CallPods) :
             RequestScheduled(profileResults)
    \/ \E targetPort \in TargetPorts : PreRequestHook(targetPort)

PDNext ==
    \/ /\ pd.pc = "start"
       /\ \E profiles \in ProfileSets, t \in Thresholds, b \in BlockSizes, n \in PromptLens,
             candidates \in SUBSET PDPods :
             ScheduleStart(profiles, t, b, n, candidates)
    \/ ScheduleRun
    \/ ScheduleFinish
    \/ PrefixPreRequest
    \/ ScheduleAgain
    \/ /\ pd.pc = "start"
       /\ \E profiles \in ProfileSets, t \in Thresholds, b \in BlockSizes, n \in PromptLens :
          \E prs \in ResultMaps(profiles, CallPods) :
          \E state \in PrefixStates(IF decodeProfile \in DOMAIN prs THEN prs[decodeProfile] ELSE NilResult,
                                 n, b) :
          HandlerCall(profiles, t, b, n, prs, state)

----------------------------------------------------------------------------
(* Prefix index: data *)

MaxCapacity == 2
MaxBlockPods == 2
MaxAdds == 2
PrefixBlockSize == 2

\* model names; FindMatchingPods treats the empty name apart
Models == {"", "m1", "m2"}

PxPods == {"default/pod1", "default/pod2"}

\* prompts are byte strings, modelled as sequences of one-byte strings
Prompts == {<<>>, <<"a">>, <<"a", "b", "c">>, <<"a", "b", "c", "d">>, <<"c", "d">>}

\* PrefixStoreConfig values: capacities from 0 (lru.New refuses a size <= 0) to
\* the bound, one block size
Configs ==
    [built : {TRUE}, cacheCapacity : 0..MaxCapacity, cacheBlockSize : {PrefixBlockSize},
     maxBlockPods : 0..MaxBlockPods]
NoConfig == [built |-> FALSE, cacheCapacity |-> 0, cacheBlockSize |-> 1, maxBlockPods |-> 0]

\* lru.Cache (hashicorp/golang-lru): a sequence of entries, least recently used
\* first
LruContains(c, k) == \E i \in 1..Len(c) : c[i].key = k
LruIndex(c, k) == CHOOSE i \in 1..Len(c) : c[i].key = k
LruRemoveAt(c, i) == SubSeq(c, 1, i - 1) \o SubSeq(c, i + 1, Len(c))
LruValue(c, k) == c[LruIndex(c, k)].value
LruKeySet(c) == {c[i].key : i \in 1..Len(c)}

\* Cache.Get on a key that is present: the entry becomes the most recently used
LruGet(c, k) == Append(LruRemoveAt(c, LruIndex(c, k)), c[LruIndex(c, k)])

\* Cache.Add that never evicts
LruAdd_NoEvict(c, k, v, size) ==
    IF LruContains(c, k)
    THEN Append(LruRemoveAt(c, LruIndex(c, k)), [key |-> k, value |-> v])
    ELSE Append(c, [key |-> k, value |-> v])

\* Cache.Add: an existing key gets the new value and becomes the most recently
\* used; a new key is added and the least recently used entry is evicted when
\* the cache holds more than size entries
LruAdd(c, k, v, size) ==
    IF LruContains(c, k)
    THEN Append(LruRemoveAt(c, LruIndex(c, k)), [key |-> k, value |-> v])
    ELSE LET d == Append(c, [key |-> k, value |-> v])
         IN IF Len(d) > size THEN Tail(d) ELSE d

\* the value of an entry replaced in place (a block is a pointer: adding a pod to
\* it does not touch the order of the model's cache)
LruSetValue(c, k, v) == [c EXCEPT ![LruIndex(c, k)].value = v]

\* Cache.Keys: the keys, oldest first
LruKeys(c) == [i \in 1..Len(c) |-> c[i].key]

\* time.Now(), the value stored with a pod; nothing reads it
Now == "now"

\* the loop header with end >= len(promptBytes) as the test for a partial block
NextChunk_OffByOne(promptBytes, start, size) ==
    IF start < Len(promptBytes) /\ ~(start + size >= Len(promptBytes))
    THEN [done |-> FALSE, chunk |-> SubSeq(promptBytes, start + 1, start + size)]
    ELSE [done |-> TRUE, chunk |-> <<>>]

\* the loop header without the test for a partial block
NextChunk_KeepPartial(promptBytes, start, size) ==
    IF start < Len(promptBytes)
    THEN [done |-> FALSE,
          chunk |-> SubSeq(promptBytes, start + 1,
                           IF start + size > Len(promptBytes) THEN Len(promptBytes) ELSE start + size)]
    ELSE [done |-> TRUE, chunk |-> <<>>]

\* the loop header of AddEntry and of FindMatchingPods: the loop ends when start
\* reaches the end of the prompt or the block at start is a partial one;
\* otherwise the block is promptBytes[start:end]
NextChunk(promptBytes, start, size) ==
    IF start < Len(promptBytes) /\ ~(start + size > Len(promptBytes))
    THEN [done |-> FALSE, chunk |-> SubSeq(promptBytes, start + 1, start + size)]
    ELSE [done |-> TRUE, chunk |-> <<>>]

\* the digest computed from the bytes of the block alone
Sum64_Unchained(previousHash, chunk) == <<chunk>>

\* digest.Sum64() after writing previousHash and the bytes of the block. The
\* 64-bit xxhash value is taken as collision-free and is represented by what
\* was hashed: the chain of blocks up to this one; uint64(0), the previousHash
\* of the first block, is the empty chain
Sum64(previousHash, chunk) == Append(previousHash, chunk)

\* the model map with one cache for all models
StoreKey_Shared(modelName) == "shared"

\* s.store[modelName]: the key under which the cache of a model is kept
StoreKey(modelName) == modelName

\* the first previousHash seeded with the name of the model
InitialPreviousHash_ModelName(modelName) == <<<<modelName>>>>

\* previousHash := uint64(0) at the head of AddEntry and of FindMatchingPods,
\* whatever the model the call names
InitialPreviousHash(modelName) == <<>>

IdlePth == [pc |-> "idle", modelName |-> "", prompt |-> <<>>, pod |-> "", start |-> 0,
            previousHash |-> <<>>, blockHash |-> <<>>, orphan |-> FALSE,
            matchedPods |-> EmptyMap]

NoFound == [called |-> FALSE, modelName |-> "", prompt |-> <<>>, result |-> EmptyMap, walked |-> 0]
NoPair == [st |-> "none", modelName |-> "", prompt |-> <<>>, pod |-> ""]

\* the first block of a prompt (the whole prompt when it is shorter)
FirstChunk(prompt, size) == SubSeq(prompt, 1, IF size > Len(prompt) THEN Len(prompt) ELSE size)

\* matchedPods[pod.String()]++ for every key of the block's pods
CountHits(matchedPods, pods) ==
    [p \in (DOMAIN matchedPods) \cup {pods[i] : i \in 1..Len(pods)} |->
        Count(matchedPods, p) + IF \E i \in 1..Len(pods) : pods[i] = p THEN 1 ELSE 0]

----------------------------------------------------------------------------
(* Prefix index: operations *)

PxAllIdle == \A t \in Threads : pth[t].pc = "idle"

\* goroutines are anonymous: a new call is taken by the first idle one
PxFirstIdle(t) == pth[t].pc = "idle" /\ \A u \in Threads : u < t => pth[u].pc # "idle"

\* bound on the concurrency explored: one FindMatchingPods at a time (next to
\* any AddEntry)
NoFindRunning == \A u \in Threads : pth[u].pc \notin {"find_lock", "find_get"}

PXInit ==
    /\ config = NoConfig
    /\ store = EmptyMap
    /\ locked = FALSE
    /\ pth = [t \in Threads |-> IdlePth]
    /\ served = {}
    /\ lastFind = NoFound
    /\ pair = NoPair
    /\ nAdds = 0

\* pair after a step that is no part of the pair: a completed pair is forgotten
KeepPair == IF pair.st = "found" THEN NoPair ELSE pair

\* NewPrefixStore(config): an empty model map
NewPrefixStore(cfg) ==
    /\ ~config.built
    /\ config' = cfg
    /\ UNCHANGED <<store, locked, pth, served, lastFind, pair, nAdds, arVars, pd, sc, request>>

\* AddEntry returns in goroutine t, with or without an error
AddReturn(t, ok) ==
    /\ pth' = [pth EXCEPT ![t] = IdlePth]
    /\ pair' = IF pair.st = "adding" /\ ok THEN [pair EXCEPT !.st = "added"] ELSE NoPair

\* the step of the loop: start += cacheBlockSize, then the next block or return
AddAdvance(t) ==
    LET next == pth[t].start + config.cacheBlockSize IN
    IF NextChunk(pth[t].prompt, next, config.cacheBlockSize).done
    THEN AddReturn(t, TRUE)
    ELSE /\ pth' = [pth EXCEPT ![t].pc = "add_get", ![t].start = next]
         /\ pair' = KeepPair

\* AddEntry is entered: an empty prompt, a nil pod or a prompt shorter than a
\* block returns nil at once
AddEntryCall(t, modelName, prompt, pod) ==
    /\ config.built
    /\ PxFirstIdle(t)
    /\ nAdds < MaxAdds
    /\ nAdds' = nAdds + 1
    /\ IF prompt = <<>> \/ pod = NilPod \/ Len(prompt) < config.cacheBlockSize
       THEN /\ pair' = IF PxAllIdle /\ pod # NilPod
                       THEN [st |-> "added", modelName |-> modelName, prompt |-> prompt, pod |-> pod]
                       ELSE NoPair
            /\ UNCHANGED <<pth, served>>
       ELSE /\ pth' = [pth EXCEPT ![t] =
                         [IdlePth EXCEPT !.pc = "add_lock", !.modelName = modelName,
                                         !.prompt = prompt, !.pod = pod,
                                         !.previousHash = InitialPreviousHash(modelName)]]
            /\ served' = served \cup {<<modelName, pod, FirstChunk(prompt, config.cacheBlockSize)>>}
            /\ pair' = IF PxAllIdle
                       THEN [st |-> "adding", modelName |-> modelName, prompt |-> prompt, pod |-> pod]
                       ELSE NoPair
    /\ lastFind' = NoFound
    /\ UNCHANGED <<config, store, locked, arVars, pd, sc, request>>

\* s.Lock(); get or create the cache of the model; s.Unlock(); then the loop
\* header for the first block. When lru.New fails (cacheCapacity <= 0) AddEntry
\* returns the error with the lock held
AddLock(t) ==
    /\ pth[t].pc = "add_lock"
    /\ ~locked
    /\ IF StoreKey(pth[t].modelName) \notin DOMAIN store /\ config.cacheCapacity <= 0
       THEN /\ locked' = TRUE
            /\ AddReturn(t, FALSE)
            /\ UNCHANGED store
       ELSE /\ store' = [m \in (DOMAIN store) \cup {StoreKey(pth[t].modelName)} |->
                            IF m \in DOMAIN store THEN store[m] ELSE <<>>]
            /\ UNCHANGED locked
            /\ IF NextChunk(pth[t].prompt, 0, config.cacheBlockSize).done
               THEN AddReturn(t, TRUE)
               ELSE /\ pth' = [pth EXCEPT ![t].pc = "add_get"]
                    /\ pair' = KeepPair
    /\ lastFind' = NoFound
    /\ UNCHANGED <<config, served, nAdds, arVars, pd, sc, request>>

\* the hash of the block at start, then cache.Get(blockHash)
AddGet(t) ==
    /\ pth[t].pc = "add_get"
    /\ LET m == StoreKey(pth[t].modelName)
           chunk == NextChunk(pth[t].prompt, pth[t].start, config.cacheBlockSize).chunk
           blockHash == Sum64(pth[t].previousHash, chunk)
       IN IF LruContains(store[m], blockHash)
          THEN /\ store' = [store EXCEPT ![m] = LruGet(store[m], blockHash)]
               /\ pth' = [pth EXCEPT ![t].pc = "add_pod", ![t].blockHash = blockHash,
                                     ![t].previousHash = blockHash, ![t].orphan = FALSE]
          ELSE /\ pth' = [pth EXCEPT ![t].pc = "add_new", ![t].blockHash = blockHash,
                                     ![t].previousHash = blockHash]
               /\ UNCHANGED store
    /\ lastFind' = NoFound
    /\ pair' = KeepPair
    /\ UNCHANGED <<config, locked, served, nAdds, arVars, pd, sc, request>>

\* the block was not in the cache: lru.New for its pods (an error when
\* maxBlockPods <= 0), then cache.Add(blockHash, b). The blocks this Add evicts
\* or replaces leave the index: goroutines that hold them hold orphans
AddNew(t) ==
    /\ pth[t].pc = "add_new"
    /\ IF config.maxBlockPods <= 0
       THEN /\ AddReturn(t, FALSE)
            /\ UNCHANGED store
       ELSE LET m == StoreKey(pth[t].modelName)
                after == LruAdd(store[m], pth[t].blockHash, <<>>, config.cacheCapacity)
                gone == (LruKeySet(store[m]) \ LruKeySet(after)) \cup
                        (LruKeySet(store[m]) \cap {pth[t].blockHash})
            IN /\ store' = [store EXCEPT ![m] = after]
               /\ pth' = [u \in Threads |->
                            IF u = t THEN [pth[t] EXCEPT !.pc = "add_pod", !.orphan = FALSE]
                            ELSE IF /\ pth[u].pc = "add_pod"
                                    /\ StoreKey(pth[u].modelName) = m
                                    /\ pth[u].blockHash \in gone
                            THEN [pth[u] EXCEPT !.orphan = TRUE]
                            ELSE pth[u]]
               /\ pair' = KeepPair
    /\ lastFind' = NoFound
    /\ UNCHANGED <<config, locked, served, nAdds, arVars, pd, sc, request>>

\* b.Pods.Add(*pod, time.Now()), then the next block or return nil
AddPod(t) ==
    /\ pth[t].pc = "add_pod"
    /\ LET m == StoreKey(pth[t].modelName)
           h == pth[t].blockHash
       IN store' = IF pth[t].orphan THEN store
                   ELSE [store EXCEPT ![m] =
                            LruSetValue(store[m], h,
                                LruAdd(LruValue(store[m], h), pth[t].pod, Now, config.maxBlockPods))]
    /\ AddAdvance(t)
    /\ lastFind' = NoFound
    /\ UNCHANGED <<config, locked, served, nAdds, arVars, pd, sc, request>>

\* FindMatchingPods returns matchedPods (nil reads as the empty map) after
\* walked blocks were hits
FindReturn(t, modelName, prompt, matchedPods, walked) ==
    /\ pth' = [pth EXCEPT ![t] = IdlePth]
    /\ lastFind' = [called |-> TRUE, modelName |-> modelName, prompt |-> prompt,
                    result |-> matchedPods, walked |-> walked]
    /\ pair' = IF pair.st \in {"added", "finding"} /\ pair.modelName = modelName /\ pair.prompt = prompt
               THEN [pair EXCEPT !.st = "found"] ELSE NoPair

\* FindMatchingPods is entered: an empty prompt, an empty model name or a
\* prompt shorter than a block returns nil at once
FindCall(t, prompt, modelName) ==
    /\ config.built
    /\ PxFirstIdle(t)
    /\ NoFindRunning
    /\ LET follows == pair.st = "added" /\ PxAllIdle /\ pair.modelName = modelName /\ pair.prompt = prompt
       IN IF prompt = <<>> \/ modelName = "" \/ Len(prompt) < config.cacheBlockSize
          THEN IF follows
               THEN FindReturn(t, modelName, prompt, EmptyMap, 0)
               ELSE /\ pth' = [pth EXCEPT ![t] = IdlePth]
                    /\ lastFind' = [called |-> TRUE, modelName |-> modelName, prompt |-> prompt,
                                    result |-> EmptyMap, walked |-> 0]
                    /\ pair' = NoPair
          ELSE /\ pth' = [pth EXCEPT ![t] =
                            [IdlePth EXCEPT !.pc = "find_lock", !.modelName = modelName,
                                            !.prompt = prompt,
                                            !.previousHash = InitialPreviousHash(modelName)]]
               /\ pair' = IF follows THEN [pair EXCEPT !.st = "finding"] ELSE NoPair
               /\ lastFind' = NoFound
    /\ UNCHANGED <<config, store, locked, served, nAdds, arVars, pd, sc, request>>

\* s.RLock(); cache, ok := s.store[modelName]; s.RUnlock(); nil when !ok; then
\* the loop header for the first block
FindLock(t) ==
    /\ pth[t].pc = "find_lock"
    /\ ~locked
    /\ IF /\ StoreKey(pth[t].modelName) \in DOMAIN store
          /\ ~NextChunk(pth[t].prompt, 0, config.cacheBlockSize).done
       THEN /\ pth' = [pth EXCEPT ![t].pc = "find_get"]
            /\ pair' = KeepPair
            /\ lastFind' = NoFound
       ELSE FindReturn(t, pth[t].modelName, pth[t].prompt, EmptyMap, 0)
    /\ UNCHANGED <<config, store, locked, served, nAdds, arVars, pd, sc, request>>

\* one iteration of the walk: the hash of the block at start and
\* cache.Get(blockHash); a miss ends the walk, a hit counts every pod of
\* b.Pods.Keys() and goes on to the next block
FindGet(t) ==
    /\ pth[t].pc = "find_get"
    /\ LET m == StoreKey(pth[t].modelName)
           size == config.cacheBlockSize
           chunk == NextChunk(pth[t].prompt, pth[t].start, size).chunk
           blockHash == Sum64(pth[t].previousHash, chunk)
           walked == pth[t].start \div size
       IN IF ~LruContains(store[m], blockHash)
          THEN /\ FindReturn(t, pth[t].modelName, pth[t].prompt, pth[t].matchedPods, walked)
               /\ UNCHANGED store
          ELSE LET matched == CountHits(pth[t].matchedPods, LruKeys(LruValue(store[m], blockHash)))
               IN /\ store' = [store EXCEPT ![m] = LruGet(store[m], blockHash)]
                  /\ IF NextChunk(pth[t].prompt, pth[t].start + size, size).done
                     THEN FindReturn(t, pth[t].modelName, pth[t].prompt, matched, walked + 1)
                     ELSE /\ pth' = [pth EXCEPT ![t].start = pth[t].start + size,
                                                ![t].previousHash = blockHash,
                                                ![t].matchedPods = matched]
                          /\ pair' = KeepPair
                          /\ lastFind' = NoFound
    /\ UNCHANGED <<config, locked, served, nAdds, arVars, pd, sc, request>>

PXNext ==
    \/ /\ ~config.built
       /\ \E cfg \in Configs : NewPrefixStore(cfg)
    \/ /\ config.built /\ nAdds < MaxAdds
       /\ \E t \in Threads, modelName \in Models, prompt \in Prompts, pod \in PxPods \cup {NilPod} :
             AddEntryCall(t, modelName, prompt, pod)
    \/ \E t \in Threads : AddLock(t)
    \/ \E t \in Threads : AddGet(t)
    \/ \E t \in Threads : AddNew(t)
    \/ \E t \in Threads : AddPod(t)
    \/ /\ config.built
       /\ \E t \in Threads, prompt \in Prompts, modelName \in Models :
             FindCall(t, prompt, modelName)
    \/ \E t \in Threads : FindLock(t)
    \/ \E t \in Threads : FindGet(t)

----------------------------------------------------------------------------
(* Scorers: data *)

MaxTokenLen == 4
MaxQueue == 3
MaxQueueThreshold == 2
MaxWeight == 1

\* QueueThresholdDefault
QueueThresholdDefault == 128

\* base64.StdEncoding: a token is a sequence of characters, each a character
\* of the alphabet (its 6-bit value 0..63), the padding character, a line
\* break ('\n' or '\r') or a character outside the alphabet
Pad == 64
NewLine == 65
Invalid == 66

RECURSIVE Pow2(_)
Pow2(n) == IF n = 0 THEN 1 ELSE 2 * Pow2(n - 1)

\* EncodeToString without the padding (base64.RawStdEncoding)
RECURSIVE EncodeToString_NoPadding(_)
EncodeToString_NoPadding(bytes) ==
    IF Len(bytes) = 0 THEN <<>>
    ELSE IF Len(bytes) = 1
    THEN <<bytes[1] \div 4, (bytes[1] % 4) * 16>>
    ELSE IF Len(bytes) = 2
    THEN <<bytes[1] \div 4, (bytes[1] % 4) * 16 + (bytes[2] \div 16), (bytes[2] % 16) * 4>>
    ELSE <<bytes[1] \div 4, (bytes[1] % 4) * 16 + (bytes[2] \div 16),
           (bytes[2] % 16) * 4 + (bytes[3] \div 64), bytes[3] % 64>>
         \o EncodeToString_NoPadding(SubSeq(bytes, 4, Len(bytes)))

\* base64.StdEncoding.EncodeToString: three bytes give four characters, a
\* last group of one or two bytes is completed with padding
RECURSIVE EncodeToString(_)
EncodeToString(bytes) ==
    IF Len(bytes) = 0 THEN <<>>
    ELSE IF Len(bytes) = 1
    THEN <<bytes[1] \div 4, (bytes[1] % 4) * 16, Pad, Pad>>
    ELSE IF Len(bytes) = 2
    THEN <<bytes[1] \div 4, (bytes[1] % 4) * 16 + (bytes[2] \div 16), (bytes[2] % 16) * 4, Pad>>
    ELSE <<bytes[1] \div 4, (bytes[1] % 4) * 16 + (bytes[2] \div 16),
           (bytes[2] % 16) * 4 + (bytes[3] \div 64), bytes[3] % 64>>
         \o EncodeToString(SubSeq(bytes, 4, Len(bytes)))

\* the decoder skips line breaks wherever they stand
StripNewLines(token) == SelectSeq(token, LAMBDA c : c # NewLine)

\* DecodeString returns no error: quanta of four characters of the alphabet,
\* the last one possibly ending with one or two padding characters
Base64Valid(token) ==
    LET s == StripNewLines(token)
        n == Len(s)
    IN /\ n % 4 = 0
       /\ \A i \in 1..n :
            \/ s[i] \in 0..63
            \/ s[i] = Pad /\ (i = n \/ (i = n - 1 /\ s[n] = Pad))

\* the bytes of one quantum; the bits left over before the padding are dropped
\* without being tested (StdEncoding is not strict)
DecodeQuantum(q) ==
    LET v(i) == IF q[i] = Pad THEN 0 ELSE q[i]
        val == v(1) * Pow2(18) + v(2) * Pow2(12) + v(3) * Pow2(6) + v(4)
        all == <<val \div Pow2(16), (val \div Pow2(8)) % Pow2(8), val % Pow2(8)>>
    IN IF q[3] = Pad THEN SubSeq(all, 1, 1)
       ELSE IF q[4] = Pad THEN SubSeq(all, 1, 2)
       ELSE all

RECURSIVE DecodeQuanta(_)
DecodeQuanta(s) ==
    IF Len(s) = 0 THEN <<>>
    ELSE DecodeQuantum(SubSeq(s, 1, 4)) \o DecodeQuanta(SubSeq(s, 5, Len(s)))

\* base64.StdEncoding.DecodeString: (decodedBytes, err)
DecodeString(token) ==
    IF Base64Valid(token)
    THEN [err |-> FALSE, bytes |-> DecodeQuanta(StripNewLines(token))]
    ELSE [err |-> TRUE, bytes |-> <<>>]

\* candidate pods, by the bytes of NamespacedName.String() (namespace, '/',
\* name): "a/a", "/b" and "/" (a pod with neither namespace nor name)
ScPods == {<<97, 47, 97>>, <<47, 98>>, <<47>>}

\* the characters tokens are made of: those of the encoding of "/" and of a
\* second encoding that decodes to "/", padding, a line break, a character
\* outside the alphabet
TokenChars == {11, 48, 49, Pad, NewLine, Invalid}

SeqsUpTo(chars, n) == UNION {[1..k -> chars] : k \in 0..n}

\* the x-session-token values of a request: "" for a request without the
\* header, any short string, what PostResponse writes, and that with a line
\* break inside
Tokens ==
    SeqsUpTo(TokenChars, MaxTokenLen)
        \cup {EncodeToString(p) : p \in ScPods}
        \cup {<<NewLine>> \o EncodeToString(p) : p \in ScPods}

Zero == <<0, 1>>
Half == <<1, 2>>
RatLeq(a, b) == a[1] * b[2] <= b[1] * a[2]
NoScores == [p \in {} |-> Zero]

\* the thresholds a load-aware scorer is configured with, and the waiting
\* queue sizes of a pod: small ones and those around the default threshold
ConfiguredThresholds == (-1..MaxQueueThreshold) \cup {QueueThresholdDefault}
QueueSizes == (0..MaxQueue) \cup
              {QueueThresholdDefault - 1, QueueThresholdDefault, QueueThresholdDefault + 1}
NoQueue == [p \in ScPods |-> 0]

\* sums and integer multiples of scores
RatAdd(a, b) == <<a[1] * b[2] + b[1] * a[2], a[2] * b[2]>>
RatScale(w, a) == <<w * a[1], a[2]>>

\* the weights of the scorers of a profile: load-aware, session-affinity, prefix
Weights == [1..3 -> 0..MaxWeight]

\* int(^uint(0) >> 1), the largest int, at the width of the model's integers
MaxInt == 2147483647

\* the hit counts FindMatchingPods returns: a count of at least one block for
\* each pod found, candidate or not
NoHits == [p \in {} |-> 0]
HitMaps == UNION {[d -> 1..MaxHits] : d \in SUBSET ScPods}

\* the hit counts of the profile runs: no pod found, or every pod found with
\* a different count
RunHitMaps == {h \in HitMaps : DOMAIN h = {} \/ (DOMAIN h = ScPods /\ \A p, q \in ScPods : p # q => h[p] # h[q])}

\* the queues of the profile runs: each pod idle, lightly loaded or loaded
\* beyond the threshold
RunQueues == [ScPods -> {0, 1, MaxQueue}]

\* the session tokens of the profile runs: none, or the token of a pod
RunTokens == {<<>>} \cup {EncodeToString(p) : p \in {<<47>>, <<47, 98>>}}

SCIdle == [op |-> "idle", nilRequest |-> FALSE, token |-> <<>>, pods |-> {},
           panicked |-> FALSE, scores |-> NoScores, target |-> <<>>,
           configured |-> 0, queueThreshold |-> 0, queue |-> NoQueue, hits |-> NoHits,
           failed |-> FALSE, weights |-> <<0, 0, 0>>, picked |-> <<>>,
           labelName |-> "", allowsNoLabel |-> FALSE, validValues |-> {},
           candidates |-> {}, kept |-> {}]

\* the label names a by-label filter is configured with: the role label and a
\* label no pod of the model carries
LabelNames == {RoleLabel, "app"}

\* the values a by-label filter accepts: the role values and the empty string
LabelValues == {"", RolePrefill, RoleDecode, RoleBoth}

----------------------------------------------------------------------------
(* Scorers: operations *)

\* Score comparing the pod names with the token as it stands
SessionAffinityScore_Undecoded(sessionToken, pods) ==
    [pod \in pods |-> IF pod = sessionToken THEN One ELSE Zero]

\* SessionAffinity.Score on a non-nil request whose x-session-token header
\* (or "" without the header) is sessionToken
SessionAffinityScore(sessionToken, pods) ==
    LET decoded == IF sessionToken # <<>> THEN DecodeString(sessionToken)
                   ELSE [err |-> TRUE, bytes |-> <<>>]
        podName == IF decoded.err THEN <<>> ELSE decoded.bytes
    IN [pod \in pods |-> IF pod = podName THEN One ELSE Zero]

\* SessionAffinity.Score is called; a nil request is dereferenced to read its
\* headers
SessionScoreCall(nilRequest, sessionToken, pods) ==
    /\ sc.op = "idle"
    /\ sc' = [SCIdle EXCEPT !.op = "SessionAffinity.Score", !.nilRequest = nilRequest,
                            !.token = sessionToken, !.pods = pods,
                            !.panicked = nilRequest,
                            !.scores = IF nilRequest THEN NoScores
                                       ELSE SessionAffinityScore(sessionToken, pods)]
    /\ UNCHANGED <<arVars, pd, pxVars, request>>

\* SessionAffinity.PostResponse with a response and a target pod: the header
\* x-session-token of the response is set
SessionPostResponse(targetPod) ==
    /\ sc.op = "idle"
    /\ sc' = [SCIdle EXCEPT !.op = "SessionAffinity.PostResponse", !.target = targetPod,
                            !.token = EncodeToString(targetPod)]
    /\ UNCHANGED <<arVars, pd, pxVars, request>>

\* a later request carries the token the response was given
SessionScoreRelayed(pods) ==
    /\ sc.op = "SessionAffinity.PostResponse"
    /\ sc' = [sc EXCEPT !.op = "SessionAffinity.Score relayed", !.pods = pods,
                        !.scores = SessionAffinityScore(sc.token, pods)]
    /\ UNCHANGED <<arVars, pd, pxVars, request>>

\* NewLoadAware: the queue threshold of the scorer
NewLoadAware(queueThreshold) ==
    IF queueThreshold <= 0 THEN QueueThresholdDefault ELSE queueThreshold

\* LoadAware.Score without the cap of the queue size at the threshold
LoadAwareScore_NoCap(queueThreshold, queue, pods) ==
    [pod \in pods |->
        IF queue[pod] = 0 THEN Half
        ELSE <<queueThreshold - queue[pod], 2 * queueThreshold>>]

\* LoadAware.Score: 0.5 for an empty waiting queue, otherwise
\* 0.5 * (1.0 - waitingRequests/queueThreshold) with waitingRequests capped at
\* the threshold, as the quotient (Q - w) / 2Q
LoadAwareScore(queueThreshold, queue, pods) ==
    [pod \in pods |->
        IF queue[pod] = 0 THEN Half
        ELSE LET waitingRequests == IF queue[pod] > queueThreshold
                                    THEN queueThreshold ELSE queue[pod]
             IN <<queueThreshold - waitingRequests, 2 * queueThreshold>>]

\* a load-aware scorer is built with a configured threshold and scores pods
\* with the given waiting queue sizes (the request, nil or not, is not read)
LoadAwareScoreCall(nilRequest, configured, queue, pods) ==
    /\ sc.op = "idle"
    /\ sc' = [SCIdle EXCEPT !.op = "LoadAware.Score", !.nilRequest = nilRequest,
                            !.configured = configured,
                            !.queueThreshold = NewLoadAware(configured),
                            !.queue = queue, !.pods = pods,
                            !.scores = LoadAwareScore(NewLoadAware(configured), queue, pods)]
    /\ UNCHANGED <<arVars, pd, pxVars, request>>

\* getMinMax with the minimum started at 0
getMinMax_MinFromZero(scores) ==
    LET vals == {scores[k] : k \in DOMAIN scores}
    IN <<CHOOSE m \in vals \cup {0} : \A v \in vals \cup {0} : m <= v,
         CHOOSE m \in vals \cup {-1} : \A v \in vals \cup {-1} : v <= m>>

\* getMinMax: <<minScore, maxScore>>, the minimum started at the largest int
\* and the maximum at -1
getMinMax(scores) ==
    LET vals == {scores[k] : k \in DOMAIN scores}
    IN <<CHOOSE m \in vals \cup {MaxInt} : \A v \in vals \cup {MaxInt} : m <= v,
         CHOOSE m \in vals \cup {-1} : \A v \in vals \cup {-1} : v <= m>>

\* the hit counts returned as they are, without the normalisation
indexedScoresToNormalizedScoredPods_Raw(pods, scores) ==
    [pod \in pods |-> IF pod \in DOMAIN scores THEN <<scores[pod], 1>> ELSE Zero]

\* indexedScoresToNormalizedScoredPods, every candidate having a key
indexedScoresToNormalizedScoredPods(pods, scores) ==
    LET minScore == getMinMax(scores)[1]
        maxScore == getMinMax(scores)[2]
    IN [pod \in pods |->
           IF pod \in DOMAIN scores
           THEN IF minScore = maxScore THEN One
                ELSE <<scores[pod] - minScore, maxScore - minScore>>
           ELSE Zero]

\* the normalisation is applied to the hit counts of an index lookup
NormalizeCall(hits, pods) ==
    /\ sc.op = "idle"
    /\ sc' = [SCIdle EXCEPT !.op = "indexedScoresToNormalizedScoredPods",
                            !.hits = hits, !.pods = pods,
                            !.scores = indexedScoresToNormalizedScoredPods(pods, hits)]
    /\ UNCHANGED <<arVars, pd, pxVars, request>>

\* PrefixAwareScorer.Score: nil for a nil request and when FindMatchingPods
\* finds no pod, the normalised hit counts otherwise; hits is what
\* FindMatchingPods returns for the request
PrefixAwareScore(nilRequest, hits, pods) ==
    IF nilRequest \/ DOMAIN hits = {} THEN NoScores
    ELSE indexedScoresToNormalizedScoredPods(pods, hits)

PrefixScoreCall(nilRequest, hits, pods) ==
    /\ sc.op = "idle"
    /\ sc' = [SCIdle EXCEPT !.op = "PrefixAwareScorer.Score", !.nilRequest = nilRequest,
                            !.hits = hits, !.pods = pods,
                            !.scores = PrefixAwareScore(nilRequest, hits, pods)]
    /\ UNCHANGED <<arVars, pd, pxVars, request>>

\* PrecisePrefixCacheScorer.Score: nil for a nil request and when the indexer
\* returns an error, the normalised scores of the indexer otherwise
PrecisePrefixCacheScore(nilRequest, failed, scores, pods) ==
    IF nilRequest \/ failed THEN NoScores
    ELSE indexedScoresToNormalizedScoredPods(pods, scores)

PreciseScoreCall(nilRequest, failed, scores, pods) ==
    /\ sc.op = "idle"
    /\ sc' = [SCIdle EXCEPT !.op = "PrecisePrefixCacheScorer.Score",
                            !.nilRequest = nilRequest, !.failed = failed,
                            !.hits = scores, !.pods = pods,
                            !.scores = PrecisePrefixCacheScore(nilRequest, failed, scores, pods)]
    /\ UNCHANGED <<arVars, pd, pxVars, request>>

\* the score a scorer's mapping gives a pod; a pod the scorer left out gets
\* nothing from it
ScoreOf(scores, pod) == IF pod \in DOMAIN scores THEN scores[pod] ELSE Zero

\* the aggregate of a profile run: the scores of each scorer multiplied by its
\* weight and summed
WeightedSum(weights, scoreMaps, pods) ==
    [pod \in pods |->
        RatAdd(RatScale(weights[1], ScoreOf(scoreMaps[1], pod)),
               RatAdd(RatScale(weights[2], ScoreOf(scoreMaps[2], pod)),
                      RatScale(weights[3], ScoreOf(scoreMaps[3], pod))))]

\* the mappings of the three scorers of the profile for one request
ScoreMaps(queue, token, hits, pods) ==
    <<LoadAwareScore(NewLoadAware(MaxQueueThreshold), queue, pods),
      SessionAffinityScore(token, pods),
      PrefixAwareScore(FALSE, hits, pods)>>

\* SchedulerProfile.Run on the pods its filters kept: every scorer scores
\* them, the picker receives the weighted sums and picks one pod with the
\* highest sum
RunProfile(weights, queue, token, hits, pods, picked) ==
    /\ sc.op = "idle"
    /\ pods # {}
    /\ picked \in MaxScorePicker(WeightedSum(weights, ScoreMaps(queue, token, hits, pods), pods))
    /\ sc' = [SCIdle EXCEPT !.op = "SchedulerProfile.Run", !.weights = weights,
                            !.configured = MaxQueueThreshold,
                            !.queueThreshold = NewLoadAware(MaxQueueThreshold),
                            !.queue = queue, !.token = token, !.hits = hits, !.pods = pods,
                            !.scores = WeightedSum(weights, ScoreMaps(queue, token, hits, pods), pods),
                            !.picked = picked]
    /\ UNCHANGED <<arVars, pd, pxVars, request>>

\* NewByLabel(name, labelName, allowsNoLabel, validValues...).Filter(pods)
ByLabelCall(labelName, allowsNoLabel, validValues, pods) ==
    /\ sc.op = "idle"
    /\ sc' = [SCIdle EXCEPT !.op = "ByLabel.Filter", !.labelName = labelName,
                            !.allowsNoLabel = allowsNoLabel, !.validValues = validValues,
                            !.candidates = pods,
                            !.kept = ByLabel(labelName, allowsNoLabel, validValues, pods)]
    /\ UNCHANGED <<arVars, pd, pxVars, request>>

\* the caller has used the result; the scorers keep nothing of a call
ScorerReturn ==
    /\ sc.op # "idle"
    /\ sc' = SCIdle
    /\ UNCHANGED <<arVars, pd, pxVars, request>>

SCNext ==
    \/ /\ sc.op = "idle"
       /\ \E labelName \in LabelNames, allowsNoLabel \in BOOLEAN,
             validValues \in SUBSET LabelValues, pods \in SUBSET PDPods :
             ByLabelCall(labelName, allowsNoLabel, validValues, pods)
    \/ /\ sc.op = "idle"
       /\ \E nilRequest \in BOOLEAN, token \in Tokens, pods \in SUBSET ScPods :
             SessionScoreCall(nilRequest, IF nilRequest THEN <<>> ELSE token, pods)
    \/ /\ sc.op = "idle"
       /\ \E nilRequest \in BOOLEAN, configured \in ConfiguredThresholds,
             queue \in [ScPods -> QueueSizes], pods \in SUBSET ScPods :
             LoadAwareScoreCall(nilRequest, configured, queue, pods)
    \/ /\ sc.op = "idle"
       /\ \E hits \in HitMaps, pods \in SUBSET ScPods : NormalizeCall(hits, pods)
    \/ /\ sc.op = "idle"
       /\ \E nilRequest \in BOOLEAN, hits \in HitMaps, pods \in SUBSET ScPods :
             PrefixScoreCall(nilRequest, IF nilRequest THEN NoHits ELSE hits, pods)
    \/ /\ sc.op = "idle"
       /\ \E nilRequest \in BOOLEAN, failed \in BOOLEAN, scores \in HitMaps,
             pods \in SUBSET ScPods :
             PreciseScoreCall(nilRequest, ~nilRequest /\ failed,
                              IF nilRequest \/ failed THEN NoHits ELSE scores, pods)
    \/ /\ sc.op = "idle"
       /\ \E weights \in Weights, queue \in RunQueues, token \in RunTokens,
             hits \in RunHitMaps, pods \in SUBSET ScPods :
          \E picked \in pods : RunProfile(weights, queue, token, hits, pods, picked)
    \/ ScorerReturn
    \/ \E targetPod \in ScPods : SessionPostResponse(targetPod)
    \/ \E pods \in SUBSET ScPods : SessionScoreRelayed(pods)

----------------------------------------------------------------------------
(* Specifications *)

\* the active-request tracker
Init == ARInit /\ pd = PDIdle /\ PXInit /\ sc = SCIdle /\ request = NewRequest
Next == ARNext
Spec == Init /\ [][Next]_vars

\* the active-request tracker with its scheduling: a goroutine inside PreRequest
\* or PostResponse takes its next step, time passes so the TTL of an entry
\* elapses, the ticker of cleanCachePeriodically fires, a dispatched eviction
\* callback runs; new calls are not forced
Fairness ==
    /\ \A t \in Threads :
          WF_vars(PreRequestSet(t) \/ PreRequestIncrement(t) \/ PostResponseDecrement(t))
    /\ WF_vars(\E key \in DOMAIN requestCache : Expire(key))
    /\ WF_vars(DeleteExpired)
    /\ WF_vars(\E p \in Pods : EvictionCallback(p))
LiveSpec == Init /\ [][Next]_vars /\ Fairness

\* the prefill/decode scheduling cycle
PDSpec == Init /\ [][PDNext]_vars

\* the prefix index
PXSpec == Init /\ [][PXNext]_vars

\* the scorers, each called with every input of the model
SCSpec == Init /\ [][SCNext]_vars

\* the scorers together with the active-request tracker, whose Score runs
\* among concurrent PreRequest, PostResponse and expiry steps
ARStart == <<EmptyMap, {}, EmptyMap, [p \in Pods |-> 0], [t \in Threads |-> IdleThread],
             [r \in ReqIds |-> NoLife], [p \in Pods |-> 0], FALSE, NoScore>>
ScoringNext ==
    \/ sc.op = "idle" /\ ARNext
    \/ arVars = ARStart /\ SCNext
ScoringSpec == Init /\ [][ScoringNext]_vars

\* the pre-request hook of the prefill header after ProcessResults
HookSpec == Init /\ [][HookNext]_vars

----------------------------------------------------------------------------
(* Properties of the active-request tracker *)

AllIdle == \A t \in Threads : thr[t].pc = "idle"

\* C1: in every reachable state the counter of each pod equals the number of
\* unexpired cache entries whose podName is that pod.
C1_CounterMirrorsCache ==
    \A p \in Pods : Count(podCounts, p) = Unexpired(p)

\* a goroutine has done its cache operation and not yet the counter update
Torn(t) == thr[t].pc \in {"pre_inc", "post_dec"}

\* a step of a goroutine other than t, of the periodic cleanup or of a callback
OtherStep(t) ==
    \/ \E u \in Threads \ {t} :
          \/ \E rid \in ReqIds, prs \in ProfileResultSeqs : PreRequestCall(u, rid, prs)
          \/ PreRequestSet(u)
          \/ PreRequestIncrement(u)
          \/ \E rid \in ReqIds, pod \in Pods : PostResponseCall(u, rid, pod)
          \/ PostResponseDecrement(u)
    \/ DeleteExpired
    \/ \E p \in Pods : EvictionCallback(p)

\* C2: cache insert/remove and counter increment/decrement are atomic pairs: in
\* no state where one goroutine is between its cache operation and its counter
\* update can any other PreRequest, PostResponse, cleanup or callback step act.
C2_AtomicPairs ==
    \A t \in Threads : Torn(t) => ~ENABLED OtherStep(t)

C11_CountEqualsCalls ==
    (AllIdle /\ preCalls # Dirty) =>
        \A p \in Pods : Count(podCounts, p) = preCalls[p]

\* C12: no counter is ever negative.
C12_CountNonNegative ==
    \A p \in Pods : Count(podCounts, p) >= 0 /\ (p \in DOMAIN podCounts => podCounts[p] >= 0)

\* a decrement (of PostResponse or of an eviction callback) has run for a pod
\* that had no counter
C12_Witness == missed

\* C13: every increment is eventually undone by PostResponse or by the expiry
\* callback: whenever all calls have returned, eventually every counter is
\* back at zero or a new call is in progress; no behaviour ends with all calls
\* returned and a counter above zero for ever.
C13_CountsReturnToZero ==
    ~<>[](AllIdle /\ podCounts # EmptyMap)

\* the largest count among the tracked pods
LargestCount ==
    LET vals == {podCounts[p] : p \in DOMAIN podCounts}
    IN CHOOSE m \in vals : \A v \in vals : v <= m

\* C14: Score gives every tracked candidate (maxCount - count)/maxCount, with
\* maxCount the largest count among all tracked pods, and every untracked
\* candidate 1.0.
C14_ScoreFormula ==
    scoreOut.called =>
        \A pod \in scoreOut.pods :
            RatEq(scoreOut.scores[pod],
                  IF pod \in DOMAIN podCounts
                  THEN <<LargestCount - podCounts[pod], LargestCount>>
                  ELSE One)

\* Score called for one pod while another, busier pod is tracked
C14_Witness ==
    /\ scoreOut.called
    /\ scoreOut.pods = {"ns/a.b"}
    /\ Count(podCounts, "ns/a") = 2
    /\ Count(podCounts, "ns/a.b") = 1

\* one request has been PreRequest'd to pod p and nothing else has happened
OnlyRequestOn(p) ==
    /\ AllIdle
    /\ preCalls = [q \in Pods |-> IF q = p THEN 1 ELSE 0]

\* C15: with two pods, once one request has been PreRequest'd to one pod and
\* not PostResponse'd, Score gives the other pod a strictly higher score and
\* the max-score picker picks the other pod.
C15_SecondRequestSpreads ==
    \A p \in Pods :
        (scoreOut.called /\ scoreOut.pods = Pods /\ OnlyRequestOn(p)) =>
            /\ \A q \in Pods \ {p} : RatLess(scoreOut.scores[p], scoreOut.scores[q])
            /\ MaxScorePicker(scoreOut.scores) = Pods \ {p}

\* Score called for both pods while the first request is in flight on one
C15_Witness ==
    /\ scoreOut.called /\ scoreOut.pods = Pods
    /\ OnlyRequestOn("ns/a")
    /\ "ns/a.r1" \in (DOMAIN requestCache) \ expired

----------------------------------------------------------------------------
(* Properties of the prefix index *)

\* the number of full blocks of a prompt, the floor of len(p)/B
FullBlocks(prompt) == Len(prompt) \div config.cacheBlockSize

\* C16: when AddEntry(m, p, pod) has returned nil and FindMatchingPods(p, m)
\* follows it with no other call in between, the result gives pod the hit
\* count floor(len(p)/B).
C16_AddThenFind ==
    pair.st = "found" =>
        Count(lastFind.result, pair.pod) = FullBlocks(pair.prompt)

\* C16 for a non-empty model name and a prompt whose blocks fit the model's
\* cache: floor(len(p)/B) <= cacheCapacity.
C16_AddThenFindWithinCapacity ==
    (/\ pair.st = "found"
     /\ pair.modelName # ""
     /\ FullBlocks(pair.prompt) <= config.cacheCapacity) =>
        /\ Count(lastFind.result, pair.pod) = FullBlocks(pair.prompt)
        /\ FullBlocks(pair.prompt) > 0 => pair.pod \in DOMAIN lastFind.result

\* an add-then-find pair for a prompt whose blocks fill the cache exactly
C16_Witness ==
    /\ pair.st = "found"
    /\ pair.modelName # ""
    /\ FullBlocks(pair.prompt) = config.cacheCapacity
    /\ config.cacheCapacity = MaxCapacity

\* C17: every pod FindMatchingPods reports for model m was the pod of an
\* AddEntry call for model m.
C17_ModelsNeverCollide ==
    lastFind.called =>
        \A pod \in DOMAIN lastFind.result :
            \E x \in served : x[1] = lastFind.modelName /\ x[2] = pod

\* a prompt looked up under m2 whose first block is indexed under m1 only
C17_Witness ==
    /\ lastFind.called /\ lastFind.modelName = "m2"
    /\ Len(lastFind.prompt) >= config.cacheBlockSize
    /\ \A x \in served : x[1] = "m1"
    /\ "m1" \in DOMAIN store
    /\ LruContains(store["m1"], <<FirstChunk(lastFind.prompt, config.cacheBlockSize)>>)

\* C18: every pod FindMatchingPods reports served, under the same model, a
\* prompt that starts with the first block of the request, and its hit count
\* is at most the number of leading blocks of the request that were found.
C18_PrefixNotSubstring ==
    lastFind.called =>
        \A pod \in DOMAIN lastFind.result :
            /\ <<lastFind.modelName, pod, FirstChunk(lastFind.prompt, config.cacheBlockSize)>> \in served
            /\ lastFind.result[pod] <= lastFind.walked

\* the request q || r = "abcd" looked up while the block of r = "cd" is
\* indexed for a pod that never served a prompt starting with "ab"
C18_Witness ==
    /\ lastFind.called /\ lastFind.prompt = <<"a", "b", "c", "d">>
    /\ lastFind.modelName \in DOMAIN store
    /\ LruContains(store[lastFind.modelName], <<<<"c", "d">>>>)
    /\ \E pod \in PxPods :
          /\ <<lastFind.modelName, pod, <<"c", "d">>>> \in served
          /\ <<lastFind.modelName, pod, <<"a", "b">>>> \notin served

\* the chain of the first n full blocks of a prompt
LeadingChain(prompt, n) ==
    [j \in 1..n |-> SubSeq(prompt, (j - 1) * config.cacheBlockSize + 1, j * config.cacheBlockSize)]

\* C19: every indexed block is the chain of leading full blocks of a prompt,
\* each of exactly B bytes, and its first block is the first block of a prompt
\* added under that model.
C19_NoPartialBlock ==
    \A m \in DOMAIN store : \A i \in 1..Len(store[m]) :
        LET chain == store[m][i].key IN
        /\ \A j \in 1..Len(chain) : Len(chain[j]) = config.cacheBlockSize
        /\ \E prompt \in Prompts :
              Len(chain) <= FullBlocks(prompt) /\ chain = LeadingChain(prompt, Len(chain))
        /\ \E x \in served : x[1] = m /\ x[3] = chain[1]

\* a prompt with a trailing partial block has been added on its own
C19_Witness ==
    /\ pair.st = "added"
    /\ Len(pair.prompt) > config.cacheBlockSize
    /\ Len(pair.prompt) % config.cacheBlockSize # 0
    /\ Len(store[pair.modelName]) = 1

\* C20: no indexed block records more than maxBlockPods pods.
C20_PodsBounded ==
    \A m \in DOMAIN store : \A i \in 1..Len(store[m]) :
        Len(store[m][i].value) <= config.maxBlockPods

\* a block at its capacity after AddEntry calls of more pods than it holds
C20_Witness ==
    /\ PxAllIdle
    /\ \E m \in DOMAIN store : \E i \in 1..Len(store[m]) :
          /\ Len(store[m][i].value) = config.maxBlockPods
          /\ Len(store[m][i].key) = 1
          /\ Cardinality({x \in served : x[1] = m /\ x[3] = store[m][i].key[1]}) > config.maxBlockPods

----------------------------------------------------------------------------
(* Properties of the prefill/decode handler *)

DecodeOK(prs) == decodeProfile \in DOMAIN prs /\ prs[decodeProfile] # NilResult
PrefillOK(prs) == prefillProfile \in DOMAIN prs /\ prs[prefillProfile] # NilResult

\* ProcessResults has returned (at the end of Schedule or of a direct call)
Processed == pd.pc \in {"done", "called"}

\* C3: whenever the decode result is non-nil, ProcessResults returns no error
\* and a SchedulingResult whose primary profile is decode and carries the
\* decode result, whether prefill was skipped, failed or succeeded.
C3_PrefillFailureNeverDenies ==
    (Processed /\ DecodeOK(pd.profileResults)) =>
        /\ ~pd.out.err
        /\ pd.out.result.PrimaryProfileName = decodeProfile
        /\ decodeProfile \in DOMAIN pd.out.result.ProfileResults
        /\ pd.out.result.ProfileResults[decodeProfile] = pd.profileResults[decodeProfile]

\* ProcessResults called with a decode result and a failed prefill
C3_Witness ==
    /\ pd.pc = "called"
    /\ DecodeOK(pd.profileResults)
    /\ prefillProfile \in DOMAIN pd.profileResults
    /\ pd.profileResults[prefillProfile] = NilResult

\* C4: whenever the decode result is nil, ProcessResults returns an error and
\* no SchedulingResult, whatever the prefill result is.
C4_DecodeFailureIsError ==
    (Processed /\ ~DecodeOK(pd.profileResults)) =>
        pd.out.err /\ pd.out.result = NoSchedulingResult

\* ProcessResults called with a failed decode and a successful prefill
C4_Witness ==
    /\ pd.pc = "called"
    /\ decodeProfile \in DOMAIN pd.profileResults
    /\ pd.profileResults[decodeProfile] = NilResult
    /\ PrefillOK(pd.profileResults)

\* what Pick returns for the results so far: in the loop, or in a direct call
PickValue == IF pd.pc = "called" THEN pd.lastPick ELSE PickNow

\* C5: Pick never returns a profile that has already been run, and in the
\* Schedule loop it returns the empty set once |profiles| iterations have
\* been made.
C5_PickTerminates ==
    /\ pd.pc \in {"loop", "called"} => PickValue \cap DOMAIN pd.profileResults = {}
    /\ (pd.pc = "loop" /\ pd.picks >= Cardinality(pd.profiles)) => PickNow = {}

\* max(blockHits[decodePod] - 1, 0)
HitBlocks ==
    LET servers == pd.cycleState.PrefixCacheServers
        pod == pd.profileResults[decodeProfile]
        hits == IF pd.cycleState.readable /\ pod \in DOMAIN servers THEN servers[pod] ELSE 0
    IN IF hits - 1 > 0 THEN hits - 1 ELSE 0

\* C6: with the prefill profile configured, decode succeeded and no other
\* profile run yet, Pick returns the empty set if
\* len(prompt) - hitBlocks*B < T and {prefill} otherwise, for every prompt
\* length, prefix state and threshold.
C6_PickDecisionRule ==
    (/\ pd.pc \in {"loop", "called"}
     /\ prefillProfile \in pd.profiles
     /\ DecodeOK(pd.profileResults)
     /\ DOMAIN pd.profileResults = {decodeProfile}) =>
        PickValue = IF pd.promptLen - HitBlocks * pd.hashBlockSize < pd.pdThreshold
                  THEN {} ELSE {prefillProfile}

\* C7: whenever the decode profile has no entry in the results, Pick returns
\* exactly {decode}; the first profile run in a cycle is decode, so prefill
\* never runs before decode.
C7_DecodeFirst ==
    /\ (pd.pc \in {"loop", "called"} /\ decodeProfile \notin DOMAIN pd.profileResults)
            => PickValue = {decodeProfile}
    /\ Len(pd.ran) > 0 => pd.ran[1] = decodeProfile

\* Pick called with a prefill result and no decode entry
C7_Witness ==
    /\ pd.pc = "called"
    /\ decodeProfile \notin DOMAIN pd.profileResults
    /\ prefillProfile \in DOMAIN pd.profileResults

\* C8: with a non-nil decode result, the SchedulingResult contains the prefill
\* entry iff prefill ran and succeeded, otherwise it contains the decode entry
\* only; the primary profile is decode in both cases.
C8_PrefillEntryIffSucceeded ==
    (Processed /\ DecodeOK(pd.profileResults)) =>
        LET res == pd.out.result.ProfileResults IN
        /\ pd.out.result.PrimaryProfileName = decodeProfile
        /\ prefillProfile \in DOMAIN res <=> PrefillOK(pd.profileResults)
        /\ PrefillOK(pd.profileResults) => res[prefillProfile] = pd.profileResults[prefillProfile]
        /\ ~PrefillOK(pd.profileResults) => DOMAIN res = {decodeProfile}

\* ProcessResults called with decode and prefill succeeded and a third
\* profile failed
C8_Witness ==
    /\ pd.pc = "called"
    /\ DecodeOK(pd.profileResults) /\ PrefillOK(pd.profileResults)
    /\ extraProfile \in DOMAIN pd.profileResults
    /\ pd.profileResults[extraProfile] = NilResult

\* C9: the pod of the primary profile of a successful SchedulingResult is a
\* candidate whose role label is decode or both, or that has no role label.
C9_PrimaryNeverPrefill ==
    (pd.mode = "schedule" /\ pd.pc = "done" /\ ~pd.out.err) =>
        LET res == pd.out.result
            pod == res.ProfileResults[res.PrimaryProfileName]
        IN /\ pod \in pd.candidates
           /\ \/ RoleLabel \notin DOMAIN Labels[pod]
              \/ Labels[pod][RoleLabel] \in {RoleDecode, RoleBoth}

\* a cycle over candidates that include a prefill pod, with prefill scheduled
C9_Witness ==
    /\ pd.mode = "schedule" /\ pd.pc = "done" /\ ~pd.out.err
    /\ "podP" \in pd.candidates
    /\ pd.out.result.ProfileResults[pd.out.result.PrimaryProfileName] = "podN"
    /\ prefillProfile \in DOMAIN pd.out.result.ProfileResults

\* the second cycle of a request with a long prompt (not shorter than the
\* threshold) has ended, its first cycle scheduled both decode and prefill,
\* and the decode pod chosen again is the pod the prompt was recorded for
WarmSecondCycle ==
    /\ pd.mode = "schedule" /\ pd.pc = "done" /\ pd.round = 2
    /\ pd.promptLen >= pd.pdThreshold
    /\ prefillProfile \in DOMAIN pd.first.ProfileResults
    /\ DecodeOK(pd.profileResults)
    /\ pd.profileResults[decodeProfile] = pd.warmPod

\* C21 (as stated): after a request was scheduled with both decode and prefill
\* and its prompt was recorded for the chosen decode pod, scheduling the same
\* prompt again runs decode only: the result has no prefill entry.
C21_WarmCacheDecodeOnly ==
    WarmSecondCycle =>
        /\ ~pd.out.err
        /\ DOMAIN pd.out.result.ProfileResults = {decodeProfile}
        /\ prefillProfile \notin DOMAIN pd.profileResults

\* C21 (amended): the same, when the part of the prompt after its last full
\* block is shorter than the threshold (len(prompt) mod B < T).
C21_WarmCacheDecodeOnlyBelowThreshold ==
    (/\ WarmSecondCycle
     /\ pd.promptLen % pd.hashBlockSize < pd.pdThreshold) =>
        /\ ~pd.out.err
        /\ DOMAIN pd.out.result.ProfileResults = {decodeProfile}
        /\ prefillProfile \notin DOMAIN pd.profileResults

\* a warm second cycle of a prompt with a partial last block, which ran
\* decode only
C21_Witness ==
    /\ WarmSecondCycle
    /\ pd.promptLen % pd.hashBlockSize > 0
    /\ pd.promptLen % pd.hashBlockSize < pd.pdThreshold
    /\ "podP" \in pd.candidates
    /\ pd.ran = <<decodeProfile>>

\* Pick for the request, results and prefix state of the current call, at
\* threshold t
PickAt(t) == Pick(pd.cycleState, pd.promptLen, t, pd.hashBlockSize, pd.profiles, pd.profileResults)

\* C22: with the request and the prefix state of the decode pod fixed, if Pick
\* runs prefill at threshold T it runs prefill at every smaller threshold, and
\* if it skips prefill at T it skips prefill at every larger threshold, over
\* all integer thresholds (0 and negative ones included).
C22_ThresholdMonotone ==
    pd.pc = "called" =>
        \A t \in Thresholds :
            /\ (t < pd.pdThreshold /\ prefillProfile \in pd.lastPick)
                    => prefillProfile \in PickAt(t)
            /\ (t > pd.pdThreshold /\ prefillProfile \notin pd.lastPick)
                    => prefillProfile \notin PickAt(t)

\* Pick ran prefill at a positive threshold below the largest one, for a
\* decode pod with cached blocks, and skips prefill at a larger threshold
C22_Witness ==
    /\ pd.pc = "called"
    /\ pd.pdThreshold > 0
    /\ pd.lastPick = {prefillProfile}
    /\ HitBlocks > 0
    /\ \E t \in Thresholds : t > pd.pdThreshold /\ PickAt(t) = {}

----------------------------------------------------------------------------
(* Properties of the scorers *)

\* the token is present and base64-decodes, without error, to the name
DecodesTo(token, name) ==
    token # <<>> /\ ~DecodeString(token).err /\ DecodeString(token).bytes = name

\* C26: session-affinity Score gives 1.0 to a candidate pod exactly when the
\* x-session-token header base64-decodes to the namespaced name of that pod
\* and 0.0 to every other candidate; with a missing or undecodable token every
\* candidate gets 0.0.
C26_SessionScore ==
    (sc.op = "SessionAffinity.Score" /\ ~sc.nilRequest) =>
        /\ DOMAIN sc.scores = sc.pods
        /\ \A pod \in sc.pods :
              sc.scores[pod] = IF DecodesTo(sc.token, pod) THEN One ELSE Zero
        /\ (sc.token = <<>> \/ DecodeString(sc.token).err) =>
              \A pod \in sc.pods : sc.scores[pod] = Zero

\* Score called with every candidate and a token that decodes to "/" without
\* being what the encoder writes for it
C26_Witness ==
    /\ sc.op = "SessionAffinity.Score" /\ ~sc.nilRequest
    /\ sc.pods = ScPods
    /\ sc.token # EncodeToString(<<47>>)
    /\ DecodesTo(sc.token, <<47>>)
    /\ sc.scores[<<47>>] = One

HalfOfFreeShare(q, Q) == <<Q - (IF q < Q THEN q ELSE Q), 2 * Q>>

\* C28 (as stated): for every waiting queue size q >= 0 and every configured
\* threshold Q the load-aware score is 0.5 when q = 0 and
\* 0.5 * (1 - min(q, Q)/Q) otherwise.
C28_LoadAwareScore ==
    sc.op = "LoadAware.Score" =>
        \A pod \in sc.pods :
            IF sc.queue[pod] = 0 THEN sc.scores[pod] = Half
            ELSE RatEq(sc.scores[pod], HalfOfFreeShare(sc.queue[pod], sc.configured))

\* C28 (amended): the same with Q the threshold of the scorer, which is the
\* configured threshold when that is positive and the default 128 otherwise;
\* the score is 0 at or above Q and never above 0.5.
C28_LoadAwareScoreEffectiveThreshold ==
    sc.op = "LoadAware.Score" =>
        LET Q == IF sc.configured > 0 THEN sc.configured ELSE QueueThresholdDefault IN
        \A pod \in sc.pods :
            /\ IF sc.queue[pod] = 0 THEN sc.scores[pod] = Half
               ELSE RatEq(sc.scores[pod], HalfOfFreeShare(sc.queue[pod], Q))
            /\ sc.queue[pod] >= Q => RatEq(sc.scores[pod], Zero)
            /\ RatLeq(sc.scores[pod], Half)

\* a scorer configured with threshold 2 scoring an idle pod, a pod below the
\* threshold and a pod above it
C28_Witness ==
    /\ sc.op = "LoadAware.Score"
    /\ sc.configured = 2
    /\ sc.pods = ScPods
    /\ \E idle, busy, full \in sc.pods :
          /\ sc.queue[idle] = 0 /\ sc.queue[busy] = 1 /\ sc.queue[full] > 2
          /\ sc.scores[busy] = <<1, 4>>
          /\ RatEq(sc.scores[full], Zero)

\* the smallest and the largest hit count among the matching pods
LeastHits(hits) == CHOOSE m \in {hits[k] : k \in DOMAIN hits} : \A k \in DOMAIN hits : m <= hits[k]
MostHits(hits) == CHOOSE m \in {hits[k] : k \in DOMAIN hits} : \A k \in DOMAIN hits : hits[k] <= m

\* C29: a candidate pod with h hits scores (h - min)/(max - min), min and max
\* being the smallest and largest hit counts among the matching pods; when
\* min = max every matching pod scores 1.0; a candidate pod with no hits
\* scores 0.0.
C29_PrefixNormalisation ==
    sc.op = "indexedScoresToNormalizedScoredPods" =>
        /\ DOMAIN sc.scores = sc.pods
        /\ \A pod \in sc.pods :
              IF pod \in DOMAIN sc.hits
              THEN IF LeastHits(sc.hits) = MostHits(sc.hits)
                   THEN sc.scores[pod] = One
                   ELSE RatEq(sc.scores[pod],
                              <<sc.hits[pod] - LeastHits(sc.hits),
                                MostHits(sc.hits) - LeastHits(sc.hits)>>)
              ELSE sc.scores[pod] = Zero

\* three matching pods with different hit counts, the one with the fewest
\* hits not being a candidate, and a candidate strictly between 0 and 1
C29_Witness ==
    /\ sc.op = "indexedScoresToNormalizedScoredPods"
    /\ DOMAIN sc.hits = ScPods
    /\ \E low \in ScPods \ sc.pods, mid \in sc.pods, high \in sc.pods :
          /\ sc.hits[low] < sc.hits[mid] /\ sc.hits[mid] < sc.hits[high]
          /\ RatLess(Zero, sc.scores[mid]) /\ RatLess(sc.scores[mid], One)
          /\ RatEq(sc.scores[high], One)

\* the scorers that read the request in order to score
RequestScorers == {"PrefixAwareScorer.Score", "PrecisePrefixCacheScorer.Score",
                   "SessionAffinity.Score"}

\* C25: a scorer given a nil request does not fail, and one that cannot score
\* without the request returns an empty mapping; for the prefix,
\* cache-tracking, session-affinity and load-aware scorers.
C25_NilRequestEmptyMapping ==
    (sc.nilRequest /\ sc.op \in RequestScorers \cup {"LoadAware.Score"}) =>
        /\ ~sc.panicked
        /\ sc.op \in RequestScorers => sc.scores = NoScores

\* a score, as a quotient with a positive denominator, lies in [0,1]
InUnitInterval(r) == r[2] > 0 /\ 0 <= r[1] /\ r[1] <= r[2]

\* C24: every score returned by the load-aware, session-affinity,
\* active-request and prefix scorers lies in [0,1], also when the counts of
\* the active-request tracker change while its Score runs.
C24_ScoresInUnitInterval ==
    /\ sc.op # "SchedulerProfile.Run" =>
          \A pod \in DOMAIN sc.scores : InUnitInterval(sc.scores[pod])
    /\ sc.op = "SchedulerProfile.Run" =>
          \A i \in 1..3 :
             \A pod \in DOMAIN ScoreMaps(sc.queue, sc.token, sc.hits, sc.pods)[i] :
                InUnitInterval(ScoreMaps(sc.queue, sc.token, sc.hits, sc.pods)[i][pod])
    /\ \A pod \in DOMAIN scoreOut.scores : InUnitInterval(scoreOut.scores[pod])

\* the active-request Score has returned a score strictly between 0 and 1
\* while a PreRequest or a PostResponse of another goroutine stands between
\* its cache operation and its counter update
C24_Witness ==
    /\ scoreOut.called
    /\ \E pod \in scoreOut.pods :
          RatLess(Zero, scoreOut.scores[pod]) /\ RatLess(scoreOut.scores[pod], One)
    /\ \E t \in Threads : thr[t].pc \in {"pre_inc", "post_dec"}

\* the aggregate score of a pod in the current profile run, from the scores
\* of the three scorers and their weights
Aggregate(pod) ==
    LET maps == ScoreMaps(sc.queue, sc.token, sc.hits, sc.pods)
    IN RatAdd(RatScale(sc.weights[1], ScoreOf(maps[1], pod)),
              RatAdd(RatScale(sc.weights[2], ScoreOf(maps[2], pod)),
                     RatScale(sc.weights[3], ScoreOf(maps[3], pod))))

\* C23: the pod chosen by a profile has an aggregate (weighted-sum) score
\* greater than or equal to that of every other candidate that survived the
\* filters of the profile.
C23_ChosenHasHighestAggregate ==
    sc.op = "SchedulerProfile.Run" =>
        /\ sc.picked \in sc.pods
        /\ \A other \in sc.pods : RatLeq(Aggregate(other), Aggregate(sc.picked))

\* a run over all the candidates with every scorer weighted, in which the
\* chosen pod has neither the shortest queue nor the most prefix hits
C23_Witness ==
    /\ sc.op = "SchedulerProfile.Run"
    /\ sc.pods = ScPods
    /\ \A i \in 1..3 : sc.weights[i] > 0
    /\ DOMAIN sc.hits = ScPods
    /\ \E other \in sc.pods :
          /\ sc.queue[other] < sc.queue[sc.picked]
          /\ sc.hits[other] > sc.hits[sc.picked]
          /\ RatLess(Aggregate(other), Aggregate(sc.picked))

----------------------------------------------------------------------------
(* Properties of the role filters *)

\* the decode profile of a scheduling cycle has run on the candidates
DecodeProfileRan == pd.mode = "schedule" /\ decodeProfile \in DOMAIN pd.profileResults

PrefillProfileRan == pd.mode = "schedule" /\ prefillProfile \in DOMAIN pd.profileResults

\* C31: prefill-filter keeps a pod if and only if its llm-d.ai/role label
\* equals prefill; pods labelled decode or both and pods without the role
\* label are removed.
C31_PrefillFilterKeepsPrefillOnly ==
    PrefillProfileRan =>
        /\ \A pod \in pd.candidates :
              pod \in PrefillFilter(pd.candidates) <=>
                  (RoleLabel \in DOMAIN Labels[pod] /\ Labels[pod][RoleLabel] = RolePrefill)
        /\ PrefillFilter(pd.candidates) \subseteq pd.candidates
        /\ PrefillFilter(pd.candidates) \cap {"podD", "podB", "podN"} = {}
        /\ PrefillFilter(pd.candidates) = ByLabel(RoleLabel, FALSE, {RolePrefill}, pd.candidates)
        /\ pd.profileResults[prefillProfile] \in
              IF pd.candidates \cap {"podP"} = {} THEN {NilResult} ELSE {"podP"}

\* the prefill profile has run on every pod of the model and chose the
\* prefill pod
C31_Witness ==
    /\ PrefillProfileRan
    /\ pd.candidates = PDPods
    /\ pd.profileResults[prefillProfile] = "podP"
    /\ PrefillFilter(pd.candidates) = {"podP"}

\* C32: by-label keeps a pod if and only if the pod carries label L with a
\* value in validValues, or the pod lacks label L and allowsNoLabel is true;
\* for every configuration of validValues, a pod lacking label L is removed
\* when allowsNoLabel is false.
C32_ByLabelKeeps ==
    sc.op = "ByLabel.Filter" =>
        /\ sc.kept \subseteq sc.candidates
        /\ \A pod \in sc.candidates :
              pod \in sc.kept <=>
                  \/ (sc.labelName \in DOMAIN Labels[pod]
                        /\ Labels[pod][sc.labelName] \in sc.validValues)
                  \/ (sc.labelName \notin DOMAIN Labels[pod] /\ sc.allowsNoLabel)
        /\ ~sc.allowsNoLabel =>
              \A pod \in sc.candidates : sc.labelName \notin DOMAIN Labels[pod] => pod \notin sc.kept

----------------------------------------------------------------------------
(* Properties of the pre-request hook *)

\* the hook has been called with the result of the latest cycle
HookCalled == request.pc = "preRequested"

\* the profile results the hook was called with
HookResults == request.out.result.ProfileResults

\* the decimal text of the target ports of the model
PortText(port) ==
    CASE port = 0 -> <<"0">>
      [] port = 80 -> <<"8", "0">>
      [] port = 8000 -> <<"8", "0", "0", "0">>

\* the network address of a pod and a port: address:port, an IPv6 literal
\* between brackets
HostPort(pod, port) ==
    IF pod \in {"podP", "podN"}
    THEN Address[pod] \o <<":">> \o PortText(port)
    ELSE <<"[">> \o Address[pod] \o <<"]">> \o <<":">> \o PortText(port)

\* C33: prefill-header PreRequest: if the scheduling result contains the
\* prefill profile, then after PreRequest the prefiller header of the request
\* holds the address of the chosen prefill pod joined with the target port
\* (address:port in x-prefiller-host-port, the address between brackets when
\* it is an IPv6 literal).
C33_PrefillHeaderSet ==
    (HookCalled /\ prefillProfile \in DOMAIN HookResults) =>
        /\ prefillPodHeader \in DOMAIN request.Headers
        /\ request.Headers[prefillPodHeader] =
              HostPort(HookResults[prefillProfile], request.targetPort)

\* the hook wrote the address of an IPv4 pod and a port of several digits
\* over a header left by an earlier call
C33_Witness ==
    /\ HookCalled
    /\ prefillProfile \in DOMAIN HookResults
    /\ HookResults[prefillProfile] = "podP"
    /\ request.targetPort = 8000
    /\ prefillPodHeader \in DOMAIN request.before
    /\ request.Headers[prefillPodHeader] =
          <<"1", ".", "2", ".", "3", ".", "4", ":", "8", "0", "0", "0">>

\* every header but the prefiller header is as it was before the call
OtherHeadersKept ==
    /\ DOMAIN request.Headers \ {prefillPodHeader} = DOMAIN request.before \ {prefillPodHeader}
    /\ \A h \in DOMAIN request.before \ {prefillPodHeader} : request.Headers[h] = request.before[h]

C39_HookNeverReadsNilResult ==
    /\ ~request.panicked
    /\ (request.pc \in {"scheduled", "preRequested"} /\ ~request.out.err) =>
          \/ prefillProfile \notin DOMAIN HookResults
          \/ HookResults[prefillProfile] \in CallPods

\* the hook has run on a result that holds the prefill entry next to the nil
\* entry of a third profile that failed
C39_Witness ==
    /\ HookCalled
    /\ prefillProfile \in DOMAIN HookResults
    /\ extraProfile \in DOMAIN HookResults
    /\ HookResults[extraProfile] = NilResult
    /\ prefillPodHeader \in DOMAIN request.Headers

----------------------------------------------------------------------------
(* Properties of the active-request tracker with several target pods *)

\* the cache entries and the counters that still include request r
EntriesOf(r) == {k \in DOMAIN requestCache : requestCache[k].RequestID = r}

\* C35: when a scheduling result names several pods (a decode pod and a
\* prefill pod), the PostResponse of that request removes every cache entry
\* and undoes every counter increment that its PreRequest made: once the
\* request has completed no pod's count still includes it.
C35_PostResponseUndoesAllTargets ==
    \A r \in ReqIds :
        (AllIdle /\ life[r].st = "pd_done") =>
            /\ EntriesOf(r) = {}
            /\ (\A q \in ReqIds \ {r} : life[q].st = "none") => podCounts = EmptyMap

\* the pair (pod, request id) has an entry in the cache whose TTL has not
\* elapsed
PairCached(podName, requestID) ==
    \E k \in (DOMAIN requestCache) \ expired :
        requestCache[k] = [PodName |-> podName, RequestID |-> requestID]

\* C40: a PostResponse for a (pod, request id) pair that is not in the cache
\* (never registered, already post-responded, or already expired) changes no
\* cache entry and no pod's count: it removes nothing and no decrement
\* follows.
C40_UnknownPairChangesNothing ==
    [][\A t \in Threads, rid \in ReqIds, pod \in Pods :
          (PostResponseCall(t, rid, pod) /\ ~PairCached(pod, rid)) =>
              (requestCache' = requestCache /\ podCounts' = podCounts /\ thr'[t].pc # "post_dec")]_vars

----------------------------------------------------------------------------
(* Properties of the prefix index under concurrency *)

\* C36: AddEntry never returns while still holding the lock of the model map,
\* on any path including its error paths (the lock is taken and released
\* inside one step of AddEntry, so it is held in no state unless a call
\* returned with it); later AddEntry and FindMatchingPods calls are then never
\* blocked for ever.
C36_LockReleasedOnReturn ==
    /\ ~locked
    /\ \A t \in Threads : pth[t].pc \in {"add_lock", "find_lock"} => ENABLED (AddLock(t) \/ FindLock(t))

\* the pods recorded for the first block of a prompt of a model
FirstBlockPods(modelName, chunk) ==
    IF StoreKey(modelName) \in DOMAIN store /\ LruContains(store[StoreKey(modelName)], <<chunk>>)
    THEN LruKeySet(LruValue(store[StoreKey(modelName)], <<chunk>>))
    ELSE {}

\* C37: if two AddEntry calls for the same model and the same block but
\* different pods run (capacities not exceeded), then after both have
\* returned the block records both pods, whatever the interleaving.
C37_BothPodsRecorded ==
    \A m \in Models, c \in {FirstChunk(p, config.cacheBlockSize) : p \in Prompts} :
        (/\ PxAllIdle
         /\ nAdds = 2
         /\ served = {<<m, pod, c>> : pod \in PxPods}
         /\ config.cacheCapacity >= 2
         /\ config.maxBlockPods >= Cardinality(PxPods))
            => FirstBlockPods(m, c) = PxPods

----------------------------------------------------------------------------
(* Properties of the block hashes *)

\* the blocks of a prompt up to and including the one at start
BlocksUpTo(prompt, start, size) ==
    [i \in 1..((start \div size) + 1) |-> SubSeq(prompt, (i - 1) * size + 1, i * size)]

\* the hashes of first blocks held in the cache of a model
FirstBlockHashes(m) == {k \in LruKeySet(store[m]) : Len(k) = 1}

====
